---- MODULE Spec2Model ----
(***************************************************************************)
(* Model of the AI-Overlay backend: the conversation store (hot cache over *)
(* the SQLite database), the chat routes, the streaming helpers and the    *)
(* tool registry / tool-calling loop.                                      *)
(***************************************************************************)
EXTENDS Integers, Sequences, FiniteSets, TLC

(***************************************************************************)
(* Bounds of the model.                                                    *)
(***************************************************************************)
MaxConvs == 1
MaxRows == 3
MaxTurns == 2
MaxChunks == 2
MaxTurnChunks == 1
MaxChunkLen == 3
MaxToolCalls == 2
MaxListed == 2
MaxListedRows == 1
MaxCalls == 2

(***************************************************************************)
(* Program constants.  The clock unit is one cache TTL.                    *)
(***************************************************************************)
DEFAULT_TTL_MS == 1
dbCleanupFactor == 7
\* the clock is observed every TickMs, and for long enough to outlive the
\* retention of the database
TickMs == 4 * DEFAULT_TTL_MS
MaxTime == (dbCleanupFactor + 1) * DEFAULT_TTL_MS

Ids == 1..MaxConvs
Roles == {"user", "assistant", "system", "tool"}
\* CHECK (role IN ('user', 'assistant', 'system')) of the messages table
DbRoles == {"user", "assistant", "system"}
\* text is a sequence of characters
Contents == {<<"x">>}
\* the roles the store is driven with (system is stored exactly as user is)
AppendRoles == {"user", "assistant", "tool"}

VARIABLES
  now,              \* Date.now()
  store,            \* ConversationStore.store : id -> cache entry
  dbConversations,  \* table conversations : id -> row
  dbMessages,       \* table messages, in rowid order
  usedIds,          \* ids createConversation has handed out
  lastOp,           \* the store call made by the last step and what it returned
  turns,            \* the chat requests: turn -> state of its handler and reply
  toolRun,          \* one run of executeConversationWithTools
  toolCache,        \* ToolRegistry.cache : cache key -> {at, data}
  registry,         \* ToolRegistry.tools and ToolRegistry.validators
  invocations       \* the calls of executeCall made on the registry directly

storeVars == <<now, store, dbConversations, dbMessages, usedIds, lastOp>>
registryVars == <<registry, invocations>>
toolVars == <<toolRun, toolCache, registry, invocations>>
vars == <<now, store, dbConversations, dbMessages, usedIds, lastOp, turns, toolRun, toolCache,
          registry, invocations>>

(***************************************************************************)
(* The state of the two layers as one value, so that a handler that makes  *)
(* several store calls can be composed.                                    *)
(***************************************************************************)
St == [cache |-> store, convs |-> dbConversations, rows |-> dbMessages]

Front(s) == SubSeq(s, 1, Len(s) - 1)
Last(s) == s[Len(s)]
Restrict(f, S) == [x \in S |-> f[x]]
RowsOf(rows, id) == SelectSeq(rows, LAMBDA r : r.conversation_id = id)

(***************************************************************************)
(* database.js                                                             *)
(***************************************************************************)
\* INSERT INTO conversations (id, created_at, updated_at, ...)
db_createConversation(s, id, t) ==
  [s EXCEPT !.convs = [x \in DOMAIN s.convs \cup {id} |->
      IF x = id THEN [created_at |-> t, updated_at |-> t] ELSE s.convs[x]]]

\* the constraints insertMessage.run enforces: the CHECK on role and the
\* foreign key on conversation_id (pragma foreign_keys = ON)
db_insertAccepted(s, id, role) == role \in DbRoles /\ id \in DOMAIN s.convs

\* an addMessage that inserts the row and leaves the conversation as it was
db_addMessage_noTouch(s, id, role, content, t) ==
  [s EXCEPT !.rows = Append(s.rows, [conversation_id |-> id, role |-> role,
                                     content |-> content, created_at |-> t])]

\* addMessage: insert the row, then updateConversationMeta sets updated_at
db_addMessage(s, id, role, content, t) ==
  [s EXCEPT !.rows = Append(s.rows, [conversation_id |-> id, role |-> role,
                                     content |-> content, created_at |-> t]),
            !.convs = [s.convs EXCEPT ![id].updated_at = t]]

\* ORDER BY created_at ASC; rows of equal created_at stay in rowid order
RECURSIVE SortByCreatedAt(_)
SortByCreatedAt(rs) ==
  IF rs = <<>> THEN <<>>
  ELSE LET sorted == SortByCreatedAt(Front(rs))
           x == Last(rs)
           k == Cardinality({i \in 1..Len(sorted) : sorted[i].created_at <= x.created_at})
       IN SubSeq(sorted, 1, k) \o <<x>> \o SubSeq(sorted, k + 1, Len(sorted))

\* SELECT * FROM messages WHERE conversation_id = ? ORDER BY created_at ASC
db_getConversationMessages(s, id) == SortByCreatedAt(RowsOf(s.rows, id))

NoConversation == [absent |-> TRUE]

db_getStandardizedConversation(s, id) ==
  IF id \notin DOMAIN s.convs THEN NoConversation
  ELSE LET messages == db_getConversationMessages(s, id)
       IN [chatId |-> id,
           createdAt |-> s.convs[id].created_at,
           updatedAt |-> s.convs[id].updated_at,
           chatHistory |-> [i \in 1..Len(messages) |->
              [role |-> messages[i].role, content |-> messages[i].content,
               at |-> messages[i].created_at]]]

\* DELETE FROM conversations WHERE id = ?  (messages go by ON DELETE CASCADE)
db_deleteConversationById(s, id) ==
  [s EXCEPT !.convs = Restrict(s.convs, DOMAIN s.convs \ {id}),
            !.rows = SelectSeq(s.rows, LAMBDA r : r.conversation_id # id)]

\* DELETE FROM conversations WHERE updated_at < cutoff
db_cleanup(s, maxAgeMs, t) ==
  LET cutoff == t - maxAgeMs
      keep == {id \in DOMAIN s.convs : ~(s.convs[id].updated_at < cutoff)}
  IN [s EXCEPT !.convs = Restrict(s.convs, keep),
               !.rows = SelectSeq(s.rows, LAMBDA r : r.conversation_id \in keep)]

\* position of the row with MAX(id) among the rows of the conversation, 0 if none
MaxRowPos(rows, id) ==
  LET P == {i \in 1..Len(rows) : rows[i].conversation_id = id}
  IN IF P = {} THEN 0 ELSE CHOOSE i \in P : \A j \in P : j <= i

RemoveAt(rows, p) == SubSeq(rows, 1, p - 1) \o SubSeq(rows, p + 1, Len(rows))

\* deleteLastMessage: delete the MAX(id) row, bump updated_at when one was deleted
db_deleteLastMessage(s, id, t) ==
  LET p == MaxRowPos(s.rows, id)
  IN IF p = 0 THEN [s |-> s, ret |-> FALSE]
     ELSE [s |-> [s EXCEPT !.rows = RemoveAt(s.rows, p),
                           !.convs = IF id \in DOMAIN s.convs
                                     THEN [s.convs EXCEPT ![id].updated_at = t]
                                     ELSE s.convs],
           ret |-> TRUE]

(***************************************************************************)
(* conversationStore.js                                                    *)
(***************************************************************************)
CachePut(s, id, entry) ==
  [s EXCEPT !.cache = [x \in DOMAIN s.cache \cup {id} |->
      IF x = id THEN entry ELSE s.cache[x]]]

createConversation(s, id, t) ==
  CachePut(db_createConversation(s, id, t), id,
    [messages |-> <<>>, updatedAt |-> t,
     transcript |-> [chatId |-> id, createdAt |-> t, updatedAt |-> t,
                     chatHistory |-> <<>>]])

_loadConversationToCache(s, id, dbConvo) ==
  CachePut(s, id,
    [messages |-> [i \in 1..Len(dbConvo.chatHistory) |->
        [role |-> dbConvo.chatHistory[i].role,
         content |-> dbConvo.chatHistory[i].content]],
     updatedAt |-> dbConvo.updatedAt,
     transcript |-> [chatId |-> dbConvo.chatId, createdAt |-> dbConvo.createdAt,
                     updatedAt |-> dbConvo.updatedAt,
                     chatHistory |-> dbConvo.chatHistory]])

\* an appendMessage that updates the cache only
appendMessage_cacheOnly(s, id, role, content, t) ==
  IF id \notin DOMAIN s.cache
  THEN LET dbConvo == db_getStandardizedConversation(s, id)
       IN IF dbConvo # NoConversation
          THEN [s |-> _loadConversationToCache(s, id, dbConvo), ret |-> TRUE]
          ELSE [s |-> s, ret |-> FALSE]
  ELSE LET convo == s.cache[id]
           entry == [role |-> role, content |-> content, at |-> t]
       IN [s |-> [s EXCEPT !.cache[id] =
               [messages |-> Append(convo.messages, [role |-> role, content |-> content]),
                updatedAt |-> t,
                transcript |-> [convo.transcript EXCEPT
                   !.chatHistory = Append(convo.transcript.chatHistory, entry),
                   !.updatedAt = t]]],
           ret |-> TRUE]

appendMessage(s, id, role, content, t) ==
  LET \* try { db.addMessage } catch { continue with the in-memory operation }
      s1 == IF db_insertAccepted(s, id, role)
            THEN db_addMessage(s, id, role, content, t) ELSE s
  IN IF id \notin DOMAIN s1.cache
     THEN LET dbConvo == db_getStandardizedConversation(s1, id)
          IN IF dbConvo # NoConversation
             THEN [s |-> _loadConversationToCache(s1, id, dbConvo), ret |-> TRUE]
             ELSE [s |-> s1, ret |-> FALSE]
     ELSE LET convo == s1.cache[id]
              entry == [role |-> role, content |-> content, at |-> t]
          IN [s |-> [s1 EXCEPT !.cache[id] =
                  [messages |-> Append(convo.messages, [role |-> role, content |-> content]),
                   updatedAt |-> t,
                   transcript |-> [convo.transcript EXCEPT
                      !.chatHistory = Append(convo.transcript.chatHistory, entry),
                      !.updatedAt = t]]],
              ret |-> TRUE]

getMessages(s, id) ==
  IF id \in DOMAIN s.cache THEN s.cache[id].messages
  ELSE LET messages == db_getConversationMessages(s, id)
       IN [i \in 1..Len(messages) |->
             [role |-> messages[i].role, content |-> messages[i].content]]

getConversation(s, id) ==
  IF id \in DOMAIN s.cache THEN s.cache[id].transcript
  ELSE db_getStandardizedConversation(s, id)

delete(s, id) ==
  LET s1 == db_deleteConversationById(s, id)
  IN [s |-> [s1 EXCEPT !.cache = Restrict(s1.cache, DOMAIN s1.cache \ {id})],
      ret |-> id \in DOMAIN s.cache]

cleanup(s, ttlMs, t) ==
  LET keep == {id \in DOMAIN s.cache : ~(t - s.cache[id].updatedAt > ttlMs)}
      s1 == [s EXCEPT !.cache = Restrict(s.cache, keep)]
  IN db_cleanup(s1, ttlMs * dbCleanupFactor, t)

removeLastMessage(s, id, t) ==
  LET r == db_deleteLastMessage(s, id, t)
  IN IF id \in DOMAIN r.s.cache /\ r.ret
     THEN LET convo == r.s.cache[id]
          IN [s |-> [r.s EXCEPT !.cache[id] =
                  [messages |-> Front(convo.messages),
                   updatedAt |-> t,
                   transcript |-> [convo.transcript EXCEPT
                      !.chatHistory = Front(convo.transcript.chatHistory)]]],
              ret |-> r.ret]
     ELSE r

(***************************************************************************)
(* The store driven directly: one action per store operation.              *)
(***************************************************************************)
SetSt(s) ==
  /\ store' = s.cache
  /\ dbConversations' = s.convs
  /\ dbMessages' = s.rows

NoOp == [op |-> "none"]

\* the id createConversation generates: one never handed out before
FreshIds == {id \in Ids \ usedIds : \A other \in Ids \ usedIds : id <= other}

Turns == 1..MaxTurns
NoId == 0

\* a request that has not arrived yet
IdleTurn ==
  [pc |-> "idle", endpoint |-> "none", conversationId |-> NoId, provider |-> "none",
   regenerate |-> FALSE, created |-> FALSE, input |-> <<>>,
   before |-> <<>>, history |-> <<>>, chunks |-> <<>>,
   status |-> 0, events |-> <<>>, assistantText |-> <<>>, response |-> <<>>,
   ended |-> FALSE, outcome |-> "none", fellBack |-> FALSE, interfered |-> FALSE,
   connected |-> TRUE]

\* registerAllTools
RegisteredTools == {"web_search", "web_fetch"}

\* schema.required of the registered tools
Required(name) == IF name = "web_search" THEN {"query"} ELSE {"urls"}

\* register(name, definition): compile the validator, set both maps
register(reg, name, definition) ==
  [reg |-> [tools |-> [n \in DOMAIN reg.tools \cup {name} |->
                         IF n = name THEN definition ELSE reg.tools[n]],
            validators |-> [n \in DOMAIN reg.validators \cup {name} |->
                              IF n = name THEN Required(definition)
                              ELSE reg.validators[n]]],
   threw |-> FALSE, error |-> ""]

\* registerAllTools on an empty registry
RegistryAtStart ==
  register(register([tools |-> <<>>, validators |-> <<>>],
                    "web_search", "web_search").reg,
           "web_fetch", "web_fetch").reg

\* executeConversationWithTools has not been called yet
IdleRun ==
  [pc |-> "idle", provider |-> "none", streaming |-> FALSE, toolRounds |-> 0,
   currentMessages |-> <<>>,
   modelCalls |-> <<>>, toolCalls |-> <<>>, next |-> 1, toolResults |-> <<>>,
   executed |-> <<>>, events |-> <<>>, returned |-> 0, cause |-> "none"]

StoreInit ==
  /\ turns = [t \in Turns |-> IdleTurn]
  /\ toolRun = IdleRun
  /\ toolCache = <<>>
  /\ registry = RegistryAtStart
  /\ invocations = <<>>
  /\ now = 0
  /\ store = <<>>
  /\ dbConversations = <<>>
  /\ dbMessages = <<>>
  /\ usedIds = {}
  /\ lastOp = NoOp

TickUntil(limit) ==
  /\ now + TickMs <= limit
  /\ now' = now + TickMs
  /\ lastOp' = NoOp
  /\ UNCHANGED <<store, dbConversations, dbMessages, usedIds, turns, toolVars>>

Tick == TickUntil(MaxTime)

CreateConversation ==
  \E id \in FreshIds :
    /\ SetSt(createConversation(St, id, now))
    /\ usedIds' = usedIds \cup {id}
    /\ lastOp' = [op |-> "create", id |-> id]
    /\ UNCHANGED <<now, turns, toolVars>>

AppendMessage ==
  \E id \in usedIds, role \in AppendRoles, content \in Contents :
    /\ Len(dbMessages) < MaxRows
    /\ id \in DOMAIN store => Len(store[id].messages) < MaxRows
    /\ LET r == appendMessage(St, id, role, content, now)
       IN /\ SetSt(r.s)
          /\ lastOp' = [op |-> "append", id |-> id, role |-> role, content |-> content,
                        cached |-> id \in DOMAIN store, ret |-> r.ret]
    /\ UNCHANGED <<now, usedIds, turns, toolVars>>

RemoveLastMessage ==
  \E id \in usedIds :
    LET r == removeLastMessage(St, id, now)
    IN /\ SetSt(r.s)
       /\ lastOp' = [op |-> "removeLast", id |-> id, ret |-> r.ret]
       /\ UNCHANGED <<now, usedIds, turns, toolVars>>

Delete ==
  \E id \in usedIds :
    LET r == delete(St, id)
    IN /\ SetSt(r.s)
       /\ lastOp' = [op |-> "delete", id |-> id, ret |-> r.ret]
       /\ UNCHANGED <<now, usedIds, turns, toolVars>>

Cleanup ==
  /\ SetSt(cleanup(St, DEFAULT_TTL_MS, now))
  /\ lastOp' = [op |-> "cleanup"]
  /\ UNCHANGED <<now, usedIds, turns, toolVars>>

StoreNext ==
  \/ Tick
  \/ CreateConversation
  \/ AppendMessage
  \/ RemoveLastMessage
  \/ Delete
  \/ Cleanup

StoreSpec == StoreInit /\ [][StoreNext]_vars

(***************************************************************************)
(* Chat routes: POST /v1/chat, GET /v1/chat/stream, POST /v1/chat/refresh. *)
(***************************************************************************)
Providers == {"openai", "grok", "gemini"}
Whitespace == {" "}
\* every request carries its own message and every provider call its own answer
TurnChar(t) == IF t = 1 THEN "p" ELSE IF t = 2 THEN "q" ELSE "r"
AnswerChar(t) == IF t = 1 THEN "a" ELSE IF t = 2 THEN "b" ELSE "c"
\* request messages: a missing/empty message and a non-empty one
Inputs(t) == {<<>>, <<TurnChar(t)>>}
\* texts a non-streaming provider call answers with
Texts(t) == {<<AnswerChar(t)>>}
\* chunks a streaming provider call produces while a turn is followed end to end
ChatChunks(t) == {<<AnswerChar(t)>>}
\* providers of the turns followed end to end: Grok streams as OpenAI does but
\* for its guard on empty deltas
TurnProviders == {"openai", "gemini"}

Min(S) == CHOOSE x \in S : \A y \in S : x <= y

\* the matches of /\S+\s*/g in text, left to right
RECURSIVE WordMatches(_)
WordMatches(text) ==
  LET n == Len(text)
      NonWs == {i \in 1..n : text[i] \notin Whitespace}
  IN IF NonWs = {} THEN <<>>
     ELSE LET i == Min(NonWs)
              WsAfter == {x \in i..n : text[x] \in Whitespace}
              j == IF WsAfter = {} THEN n ELSE Min(WsAfter) - 1
              NonWsAfter == {x \in (j + 1)..n : text[x] \notin Whitespace}
              k == IF NonWsAfter = {} THEN n ELSE Min(NonWsAfter) - 1
          IN <<SubSeq(text, i, k)>> \o WordMatches(SubSeq(text, k + 1, n))

\* createSSESender: send(payload) writes one data: event; a write on a
\* connection the client has closed is caught and ignored
send(tr, payload) == [tr EXCEPT !.events = Append(@, payload)]

\* setupSSEHeaders: the headers are flushed with the default status
setupSSEHeaders(tr) == [tr EXCEPT !.status = 200]

writeAndFlush(tr, textChunk) ==
  IF textChunk = <<>> THEN tr
  ELSE send([tr EXCEPT !.assistantText = @ \o textChunk],
            [type |-> "token", token |-> textChunk])

RECURSIVE FlushAll(_, _)
FlushAll(tr, words) ==
  IF words = <<>> THEN tr
  ELSE FlushAll(writeAndFlush(tr, Head(words)), Tail(words))

flushByWords(tr, textChunk) ==
  IF textChunk = <<>> THEN tr ELSE FlushAll(tr, WordMatches(textChunk))

\* every path forwarding by words, as the Gemini path does
onChunk_byWords(tr, provider, chunk) ==
  IF chunk # <<>> THEN flushByWords(tr, chunk) ELSE tr

\* the for-await body of makeStreamingAPICall, per provider
onChunk(tr, provider, chunk) ==
  IF provider = "gemini" THEN (IF chunk # <<>> THEN flushByWords(tr, chunk) ELSE tr)
  ELSE IF provider = "grok" THEN (IF chunk # <<>> THEN writeAndFlush(tr, chunk) ELSE tr)
  ELSE writeAndFlush(tr, chunk)

\* a catch that answers as the blocking endpoint does
catchError_code500(tr, kind) ==
  IF tr.status = 0
  THEN [tr EXCEPT !.status = 500, !.pc = "done", !.outcome = kind]
  ELSE [send(tr, [type |-> "error"]) EXCEPT !.ended = TRUE, !.pc = "done", !.outcome = kind]

\* catch (err) of the streaming handlers: write the error event and end the
\* reply; a first write on a reply whose headers were not sent sends them
\* with the default status 200
catchError(tr, kind) ==
  [send(tr, [type |-> "error"]) EXCEPT
     !.status = IF tr.status = 0 THEN 200 ELSE tr.status,
     !.ended = TRUE, !.pc = "done", !.outcome = kind]

\* reply.code(n).send(...)
replyCode(tr, n, kind) == [tr EXCEPT !.status = n, !.pc = "done", !.outcome = kind]

\* a conversation as the requests addressed to it see it
ConvView(s, id) == <<getMessages(s, id), id \in DOMAIN s.convs>>

\* the turns after a step of turn actor (0: not a turn) that moved the store
\* to s2 and its own handler to tr: a turn whose conversation was changed by
\* the step of another request, during the turn or after it, is marked
TurnsAfter(actor, tr, s2) ==
  [t \in Turns |->
     IF t = actor THEN tr
     ELSE IF /\ turns[t].pc # "idle"
             /\ ConvView(s2, turns[t].conversationId) # ConvView(St, turns[t].conversationId)
          THEN [turns[t] EXCEPT !.interfered = TRUE]
          ELSE turns[t]]

\* the turns after a sweep of the cleanup timer: dropping a cache entry is no
\* change to a conversation, deleting it from the database is
TurnsAfterSweep(s2) ==
  [t \in Turns |->
     IF /\ turns[t].pc # "idle"
        /\ turns[t].conversationId \in DOMAIN St.convs \ DOMAIN s2.convs
     THEN [turns[t] EXCEPT !.interfered = TRUE]
     ELSE turns[t]]

\* an input validation that lets every message pass
missingMessage_never(inputMessage) == FALSE

\* if (!inputMessage): the message is missing or the empty string
missingMessage(inputMessage) == inputMessage = <<>>

\* requests arrive in the order of their numbers
MayStart(t) ==
  /\ turns[t].pc = "idle"
  /\ \A u \in Turns : u < t => turns[u].pc # "idle"

\* POST /v1/chat up to the await of makeAPICall
StartChat(t) ==
  /\ MayStart(t)
  /\ \E input \in Inputs(t), cidIn \in {NoId} \cup usedIds, dbThrows \in BOOLEAN :
       LET tr0 == [turns[t] EXCEPT !.endpoint = "chat"]
       IN IF missingMessage(input)
          THEN /\ ~dbThrows
               /\ turns' = TurnsAfter(t, replyCode(tr0, 400, "rejected"), St)
               /\ UNCHANGED <<store, dbConversations, dbMessages, usedIds, toolVars>>
          ELSE IF cidIn = NoId /\ dbThrows
          THEN \* createConversation throws outside the try: the framework answers 500
               /\ turns' = TurnsAfter(t, replyCode(tr0, 500, "storeError"), St)
               /\ UNCHANGED <<store, dbConversations, dbMessages, usedIds, toolVars>>
          ELSE /\ ~dbThrows
               /\ cidIn = NoId => FreshIds # {}
               /\ LET id == IF cidIn = NoId THEN Min(FreshIds) ELSE cidIn
                      s1 == IF cidIn = NoId THEN createConversation(St, id, now) ELSE St
                      s2 == appendMessage(s1, id, "user", input, now).s
                      tr == [tr0 EXCEPT !.conversationId = id, !.created = (cidIn = NoId),
                                        !.input = input,
                                        !.before = getMessages(s1, id),
                                        !.history = getMessages(s2, id),
                                        !.pc = "awaiting"]
                  IN /\ SetSt(s2)
                     /\ usedIds' = usedIds \cup {id}
                     /\ turns' = TurnsAfter(t, tr, s2)
  /\ lastOp' = NoOp
  /\ UNCHANGED <<now, toolVars>>

\* POST /v1/chat from the return of makeAPICall to the reply
ChatProviderReturns(t) ==
  /\ turns[t].pc = "awaiting"
  /\ \E assistantText \in Texts(t) :
       LET id == turns[t].conversationId
           s2 == appendMessage(St, id, "assistant", assistantText, now).s
           tr == [replyCode(turns[t], 200, "ok") EXCEPT !.response = assistantText,
                                                   !.assistantText = assistantText]
       IN /\ SetSt(s2)
          /\ turns' = TurnsAfter(t, tr, s2)
  /\ lastOp' = NoOp
  /\ UNCHANGED <<now, usedIds, toolVars>>

\* POST /v1/chat when makeAPICall throws (missing credential, provider error)
ChatProviderFails(t) ==
  /\ turns[t].pc = "awaiting"
  /\ turns' = TurnsAfter(t, replyCode(turns[t], 500, "providerError"), St)
  /\ lastOp' = NoOp
  /\ UNCHANGED <<now, store, dbConversations, dbMessages, usedIds, toolVars>>

\* a start of the stream that sends no init event
beginStream_noInit(tr, provider, history) ==
  [setupSSEHeaders(tr) EXCEPT
     !.provider = provider, !.history = history, !.pc = "streaming"]

\* the common tail of the two streaming handlers: headers, init event, and the
\* call of makeStreamingAPICall
beginStream(tr, provider, history) ==
  [send(setupSSEHeaders(tr), [type |-> "init"]) EXCEPT
     !.provider = provider, !.history = history, !.pc = "streaming"]

\* GET /v1/chat/stream up to the await of makeStreamingAPICall
StartStreamWith(t, providers) ==
  /\ MayStart(t)
  /\ \E input \in Inputs(t), cidIn \in {NoId} \cup usedIds, provider \in providers,
        regenerate \in BOOLEAN, dbThrows \in BOOLEAN :
       LET tr0 == [turns[t] EXCEPT !.endpoint = "stream"]
       IN IF missingMessage(input)
          THEN /\ ~dbThrows /\ ~regenerate
               /\ turns' = TurnsAfter(t, replyCode(tr0, 400, "rejected"), St)
               /\ UNCHANGED <<store, dbConversations, dbMessages, usedIds, toolVars>>
          ELSE IF cidIn = NoId /\ dbThrows
          THEN /\ ~regenerate
               /\ turns' = TurnsAfter(t, catchError(tr0, "storeError"), St)
               /\ UNCHANGED <<store, dbConversations, dbMessages, usedIds, toolVars>>
          ELSE /\ ~dbThrows
               /\ cidIn = NoId => FreshIds # {}
               /\ LET id == IF cidIn = NoId THEN Min(FreshIds) ELSE cidIn
                      s1 == IF cidIn = NoId THEN createConversation(St, id, now) ELSE St
                      s2 == IF ~regenerate
                            THEN appendMessage(s1, id, "user", input, now).s ELSE s1
                      tr == beginStream(
                              [tr0 EXCEPT !.conversationId = id, !.created = (cidIn = NoId),
                                          !.input = input, !.regenerate = regenerate,
                                          !.before = getMessages(s1, id)],
                              provider, getMessages(s2, id))
                  IN /\ SetSt(s2)
                     /\ usedIds' = usedIds \cup {id}
                     /\ turns' = TurnsAfter(t, tr, s2)
  /\ lastOp' = NoOp
  /\ UNCHANGED <<now, toolVars>>

StartStream(t) == StartStreamWith(t, TurnProviders)

\* POST /v1/chat/refresh up to the await of makeStreamingAPICall
StartRefresh(t) ==
  /\ MayStart(t)
  /\ \E cidIn \in {NoId} \cup usedIds, provider \in TurnProviders, dbThrows \in BOOLEAN :
       LET tr0 == [turns[t] EXCEPT !.endpoint = "refresh"]
           history_ == getMessages(St, cidIn)
           removes == history_ # <<>> /\ Last(history_).role = "assistant"
       IN IF cidIn = NoId
          THEN /\ ~dbThrows
               /\ turns' = TurnsAfter(t, replyCode(tr0, 400, "rejected"), St)
               /\ UNCHANGED <<store, dbConversations, dbMessages, toolVars>>
          ELSE IF removes /\ dbThrows
          THEN \* db.deleteLastMessage throws out of removeLastMessage
               /\ turns' = TurnsAfter(t, catchError([tr0 EXCEPT !.conversationId = cidIn], "storeError"), St)
               /\ UNCHANGED <<store, dbConversations, dbMessages, toolVars>>
          ELSE /\ ~dbThrows
               /\ LET s2 == IF removes THEN removeLastMessage(St, cidIn, now).s ELSE St
                      history == getMessages(s2, cidIn)
                      tr1 == [tr0 EXCEPT !.conversationId = cidIn, !.regenerate = TRUE,
                                         !.before = history_]
                      tr == IF history = <<>> \/ Last(history).role # "user"
                            THEN replyCode(tr1, 400, "rejected")
                            ELSE beginStream(tr1, provider, history)
                  IN /\ SetSt(s2)
                     /\ turns' = TurnsAfter(t, tr, s2)
  /\ lastOp' = NoOp
  /\ UNCHANGED <<now, usedIds, toolVars>>

\* makeStreamingAPICall: the stream yields one more chunk
StreamChunkOf(t, chunk, maxChunks) ==
  /\ turns[t].pc = "streaming"
  /\ Len(turns[t].chunks) < maxChunks
  /\ turns' = TurnsAfter(t,
        [onChunk(turns[t], turns[t].provider, chunk) EXCEPT !.chunks = Append(@, chunk)],
        St)
  /\ lastOp' = NoOp
  /\ UNCHANGED <<now, store, dbConversations, dbMessages, usedIds, toolVars>>

\* "Finish streaming" of the two streaming handlers
finishStream(t) ==
  LET id == turns[t].conversationId
      finalText == turns[t].assistantText
      s2 == appendMessage(St, id, "assistant", finalText, now).s
      tr == [send(turns[t], [type |-> "done", text |-> finalText,
                             conversation |-> getConversation(s2, id)])
               EXCEPT !.ended = TRUE, !.pc = "done", !.outcome = "ok"]
  IN /\ SetSt(s2)
     /\ turns' = TurnsAfter(t, tr, s2)

\* the stream ends (or the fallback text has been flushed): usage is returned
StreamEnds(t) ==
  /\ turns[t].pc \in {"streaming", "flushed"}
  /\ finishStream(t)
  /\ lastOp' = NoOp
  /\ UNCHANGED <<now, usedIds, toolVars>>

\* makeStreamingAPICall throws: a missing credential (before anything was
\* streamed) or a provider error before or during streaming.  On the Gemini
\* path a provider error of the stream falls back to generateContent.
StreamFails(t) ==
  /\ turns[t].pc = "streaming"
  /\ \E credential \in BOOLEAN :
       /\ credential => turns[t].chunks = <<>>
       /\ turns' = TurnsAfter(t,
             IF turns[t].provider = "gemini" /\ ~credential
             THEN [turns[t] EXCEPT !.pc = "fallback", !.fellBack = TRUE]
             ELSE catchError(turns[t], "providerError"),
             St)
  /\ lastOp' = NoOp
  /\ UNCHANGED <<now, store, dbConversations, dbMessages, usedIds, toolVars>>

\* Gemini fallback: generateContent returns and its text is flushed by words
FallbackReturns(t) ==
  /\ turns[t].pc = "fallback"
  /\ \E text \in Texts(t) :
       turns' = TurnsAfter(t, [flushByWords(turns[t], text) EXCEPT
                                 !.pc = "flushed", !.response = text], St)
  /\ lastOp' = NoOp
  /\ UNCHANGED <<now, store, dbConversations, dbMessages, usedIds, toolVars>>

\* Gemini fallback: generateContent throws too
FallbackFails(t) ==
  /\ turns[t].pc = "fallback"
  /\ turns' = TurnsAfter(t, catchError(turns[t], "providerError"), St)
  /\ lastOp' = NoOp
  /\ UNCHANGED <<now, store, dbConversations, dbMessages, usedIds, toolVars>>

\* DELETE /v1/conversations/:id
DeleteConversation ==
  \E id \in usedIds :
    LET r == delete(St, id)
    IN /\ SetSt(r.s)
       /\ turns' = TurnsAfter(0, IdleTurn, r.s)
       /\ lastOp' = [op |-> "delete", id |-> id, ret |-> r.ret]
       /\ UNCHANGED <<now, usedIds, toolVars>>

\* the cleanup timer
CleanupTimer ==
  LET s2 == cleanup(St, DEFAULT_TTL_MS, now)
  IN /\ SetSt(s2)
     /\ turns' = TurnsAfterSweep(s2)
     /\ lastOp' = [op |-> "cleanup"]
     /\ UNCHANGED <<now, usedIds, toolVars>>

\* while turns are followed the clock is observed long enough for the cache
\* TTL to pass
ChatMaxTime == TickMs

ChatTick == TickUntil(ChatMaxTime)

ChatNext ==
  \/ ChatTick
  \/ CreateConversation
  \/ DeleteConversation
  \/ CleanupTimer
  \/ \E t \in Turns : StartChat(t)
  \/ \E t \in Turns : ChatProviderReturns(t)
  \/ \E t \in Turns : ChatProviderFails(t)
  \/ \E t \in Turns : StartStream(t)
  \/ \E t \in Turns : StartRefresh(t)
  \/ \E t \in Turns : \E chunk \in ChatChunks(t) : StreamChunkOf(t, chunk, MaxTurnChunks)
  \/ \E t \in Turns : StreamEnds(t)
  \/ \E t \in Turns : StreamFails(t)
  \/ \E t \in Turns : FallbackReturns(t)
  \/ \E t \in Turns : FallbackFails(t)

ChatSpec == StoreInit /\ [][ChatNext]_vars

(***************************************************************************)
(* One streaming request followed chunk by chunk, with every provider and  *)
(* with chunks of every shape, and a client that may go away.              *)
(***************************************************************************)
\* a handler that stops its turn when the client goes away
onClose_abort(tr) ==
  [tr EXCEPT !.connected = FALSE, !.ended = TRUE, !.pc = "done", !.outcome = "aborted"]

\* the client closes the connection: the streaming handlers register no
\* listener for it and pass no abort signal to the provider call, so the turn
\* goes on
onClose(tr) == [tr EXCEPT !.connected = FALSE]

\* the client disconnects in the middle of a streaming turn
ClientDisconnects(t) ==
  /\ turns[t].pc \in {"streaming", "fallback", "flushed"}
  /\ turns[t].connected
  /\ turns' = TurnsAfter(t, onClose(turns[t]), St)
  /\ lastOp' = NoOp
  /\ UNCHANGED <<now, store, dbConversations, dbMessages, usedIds, toolVars>>

Chars == {"a", " "}
StreamChunks == UNION {[1..n -> Chars] : n \in 0..MaxChunkLen}

StreamNext ==
  \/ StartStreamWith(1, Providers)
  \/ \E chunk \in StreamChunks : StreamChunkOf(1, chunk, MaxChunks)
  \/ ClientDisconnects(1)
  \/ StreamEnds(1)
  \/ StreamFails(1)
  \/ FallbackReturns(1)
  \/ FallbackFails(1)

StreamSpec == StoreInit /\ [][StreamNext]_vars

(***************************************************************************)
(* The tool registry (ToolRegistry) and the tools registered at start.     *)
(***************************************************************************)
\* the tool names a model may ask for
ToolNames == RegisteredTools \cup {"calculator"}
\* arguments, as the set of properties they carry
ArgSets == {{}, {"query"}, {"urls"}}
\* what the environment of a handler does: the network and the API key
HandlerEnvs == {"ok", "fails"}

\* milliseconds of one clock unit (DEFAULT_TTL_MS)
UnitMs == 1000 * 60 * 60 * 2

\* metadata.cache_ttl of the registered tools, in milliseconds
cache_ttl(name) == IF name = "web_search" THEN 300000 ELSE 600000

\* web_search throws on a missing key or a failed request; web_fetch catches
\* the failure of every URL and throws only when args carries no urls
handlerThrows(name, args, env) ==
  IF name = "web_search" THEN env = "fails" ELSE "urls" \notin args

validateCall(name, args) ==
  IF name \notin RegisteredTools THEN [threw |-> TRUE, error |-> "Unknown tool"]
  ELSE IF ~(Required(name) \subseteq args) THEN [threw |-> TRUE, error |-> "Invalid arguments"]
  ELSE [threw |-> FALSE, error |-> ""]

_cacheKey(name, args) == <<name, args>>

executeCall(cache, name, args, env, t) ==
  IF name \notin RegisteredTools
  THEN [cache |-> cache, threw |-> TRUE, error |-> "Unknown tool", result |-> "",
        invoked |-> FALSE]
  ELSE LET cacheKey == _cacheKey(name, args)
           hit == /\ cacheKey \in DOMAIN cache
                  /\ (t - cache[cacheKey].at) * UnitMs < cache_ttl(name)
       IN IF hit
          THEN [cache |-> cache, threw |-> FALSE, error |-> "",
                result |-> cache[cacheKey].data, invoked |-> FALSE]
          ELSE IF handlerThrows(name, args, env)
          THEN [cache |-> cache, threw |-> TRUE, error |-> "handler failed",
                result |-> "", invoked |-> TRUE]
          ELSE [cache |-> [k \in DOMAIN cache \cup {cacheKey} |->
                             IF k = cacheKey THEN [at |-> t, data |-> "data"]
                             ELSE cache[k]],
                threw |-> FALSE, error |-> "", result |-> "data", invoked |-> TRUE]

(***************************************************************************)
(* executeConversationWithTools.                                           *)
(***************************************************************************)
maxToolRounds == 3

\* the tool calls a response may carry, with the ids the provider gave them
ToolCallsOf(n) ==
  {[i \in 1..n |-> [id |-> i, name |-> c[i][1], args |-> c[i][2]]] :
     c \in [1..n -> ToolNames \X ArgSets]}
ToolCallSeqs == UNION {ToolCallsOf(n) : n \in 0..MaxToolCalls}

\* emits one event of the stream
streamToolEvent(run, event) == [run EXCEPT !.events = Append(@, event)]

\* adapter.callWithTools: the request is on its way to the provider
callWithTools(run, tools) ==
  [run EXCEPT !.modelCalls = Append(@, [tools |-> tools, toolCalls |-> 0]),
              !.pc = IF tools THEN "awaitingModel" ELSE "finalCall"]

\* the head of the while loop, and the final call after it
loopHead_offByOne(run) ==
  IF run.toolRounds <= maxToolRounds
  THEN callWithTools(run, TRUE)
  ELSE callWithTools(run, FALSE)

loopHead(run) ==
  IF run.toolRounds < maxToolRounds
  THEN callWithTools(run, TRUE)
  ELSE callWithTools(run, FALSE)

\* createProviderAdapter: the Grok adapter is the OpenAI adapter with another
\* client, the Gemini adapter is its own
AdapterProviders == {"openai", "gemini"}

\* a message that carries no tool_call_id
NoToolCallId == 0

\* adapter.formatToolResults: one message per tool call, with the first result
\* of that id.  OpenAI and Grok: {role: 'tool', tool_call_id: call.id, name,
\* content}; Gemini: {role: 'function', parts: [{functionResponse: {name,
\* response}}]}, which carries no id.
formatToolResults(provider, toolCalls, results) ==
  [i \in 1..Len(toolCalls) |->
     LET found == {j \in 1..Len(results) : results[j].id = toolCalls[i].id}
     IN [role |-> IF provider = "gemini" THEN "function" ELSE "tool",
         tool_call_id |-> IF provider = "gemini" THEN NoToolCallId ELSE toolCalls[i].id,
         tool_calls |-> <<>>,
         error |-> IF found = {} THEN TRUE
                   ELSE LET j == CHOOSE k \in found : \A m \in found : k <= m
                        IN results[j].error # ""]]

\* the body of the for loop for one tool call: the try block and its catch
tryToolCall_rethrow(run, cache, toolCall, env, t) ==
  LET v == validateCall(toolCall.name, toolCall.args)
      r == executeCall(cache, toolCall.name, toolCall.args, env, t)
      done == [run EXCEPT
                 !.next = @ + 1,
                 !.executed = Append(@, [validated |-> ~v.threw,
                                         invoked |-> ~v.threw /\ r.invoked,
                                         handlerThrew |-> /\ ~v.threw
                                                          /\ r.invoked
                                                          /\ handlerThrows(toolCall.name,
                                                                           toolCall.args, env),
                                         threw |-> v.threw \/ r.threw,
                                         error |-> IF v.threw THEN v.error ELSE r.error])]
  IN IF v.threw
     THEN [run |-> [done EXCEPT !.pc = "aborted", !.cause = "tool"], cache |-> cache]
     ELSE IF r.threw
     THEN [run |-> [done EXCEPT !.pc = "aborted", !.cause = "tool"], cache |-> r.cache]
     ELSE LET pushed == [done EXCEPT !.toolResults =
                           Append(@, [id |-> toolCall.id, name |-> toolCall.name,
                                      result |-> r.result, error |-> ""])]
          IN [run |-> IF run.streaming THEN streamToolEvent(pushed, "tool_call")
                      ELSE pushed,
              cache |-> r.cache]

tryToolCall(run, cache, toolCall, env, t) ==
  LET v == validateCall(toolCall.name, toolCall.args)
      r == executeCall(cache, toolCall.name, toolCall.args, env, t)
      done == [run EXCEPT
                 !.next = @ + 1,
                 !.executed = Append(@, [validated |-> ~v.threw,
                                         invoked |-> ~v.threw /\ r.invoked,
                                         handlerThrew |-> /\ ~v.threw
                                                          /\ r.invoked
                                                          /\ handlerThrows(toolCall.name,
                                                                           toolCall.args, env),
                                         threw |-> v.threw \/ r.threw,
                                         error |-> IF v.threw THEN v.error ELSE r.error])]
  IN IF v.threw
     THEN [run |-> [done EXCEPT !.toolResults =
                      Append(@, [id |-> toolCall.id, name |-> toolCall.name,
                                 result |-> "", error |-> v.error])],
           cache |-> cache]
     ELSE IF r.threw
     THEN [run |-> [done EXCEPT !.toolResults =
                      Append(@, [id |-> toolCall.id, name |-> toolCall.name,
                                 result |-> "", error |-> r.error])],
           cache |-> r.cache]
     ELSE LET pushed == [done EXCEPT !.toolResults =
                           Append(@, [id |-> toolCall.id, name |-> toolCall.name,
                                      result |-> r.result, error |-> ""])]
          IN [run |-> IF run.streaming THEN streamToolEvent(pushed, "tool_call")
                      ELSE pushed,
              cache |-> r.cache]

\* after the last tool call of the round: the tool_result event, the messages
\* of the round, the round counter, and the next model call
endRound(run) ==
  LET streamed == IF run.streaming THEN streamToolEvent(run, "tool_result") ELSE run
      pushed == [streamed EXCEPT
                   !.currentMessages =
                      Append(@, [role |-> "assistant", tool_call_id |-> NoToolCallId,
                                 tool_calls |-> [i \in 1..Len(run.toolCalls) |->
                                                   run.toolCalls[i].id],
                                 error |-> FALSE])
                      \o formatToolResults(run.provider, run.toolCalls, run.toolResults),
                   !.toolRounds = @ + 1]
  IN loopHead(pushed)

\* executeConversationWithTools is called and makes its first model call
StartToolRun ==
  \E streaming \in BOOLEAN, provider \in AdapterProviders :
    /\ toolRun.pc = "idle"
    /\ toolRun' = loopHead([IdleRun EXCEPT
                              !.provider = provider,
                              !.streaming = streaming,
                              !.currentMessages =
                                 <<[role |-> "user", tool_call_id |-> NoToolCallId,
                                    tool_calls |-> <<>>, error |-> FALSE]>>])
    /\ lastOp' = NoOp
    /\ UNCHANGED <<now, store, dbConversations, dbMessages, usedIds, turns, toolCache,
                   registryVars>>

\* a tool-enabled call returns: parseToolCalls, and the return when it finds none
ModelResponds ==
  \E toolCalls \in ToolCallSeqs :
    /\ toolRun.pc = "awaitingModel"
    /\ LET n == Len(toolRun.modelCalls)
           answered == [toolRun EXCEPT !.modelCalls[n].toolCalls = Len(toolCalls)]
       IN toolRun' = IF toolCalls = <<>>
                     THEN [answered EXCEPT !.pc = "done", !.returned = n]
                     ELSE [answered EXCEPT !.pc = "executing", !.toolCalls = toolCalls,
                                           !.next = 1, !.toolResults = <<>>,
                                           !.executed = <<>>]
    /\ lastOp' = NoOp
    /\ UNCHANGED <<now, store, dbConversations, dbMessages, usedIds, turns, toolCache,
                   registryVars>>

\* a model call throws: nothing in executeConversationWithTools catches it
ModelFails ==
  /\ toolRun.pc \in {"awaitingModel", "finalCall"}
  /\ toolRun' = [toolRun EXCEPT !.pc = "aborted", !.cause = "provider"]
  /\ lastOp' = NoOp
  /\ UNCHANGED <<now, store, dbConversations, dbMessages, usedIds, turns, toolCache,
                   registryVars>>

\* the next tool call of the round is validated and executed; after the last
\* one the round ends
ExecuteToolCall ==
  \E env \in HandlerEnvs :
    /\ toolRun.pc = "executing"
    /\ LET r == tryToolCall(toolRun, toolCache, toolRun.toolCalls[toolRun.next], env, now)
       IN /\ toolRun' = IF r.run.pc = "aborted" THEN r.run
                        ELSE IF r.run.next <= Len(r.run.toolCalls) THEN r.run
                        ELSE endRound(r.run)
          /\ toolCache' = r.cache
          /\ LET toolCall == toolRun.toolCalls[toolRun.next]
                 ex == Last(r.run.executed)
             IN lastOp' = [op |-> IF ex.validated THEN "executeCall" ELSE "validateCall",
                           name |-> toolCall.name, args |-> toolCall.args,
                           handlerThrew |-> ex.handlerThrew,
                           threw |-> ex.threw, error |-> ex.error]
    /\ UNCHANGED <<now, store, dbConversations, dbMessages, usedIds, turns, registryVars>>

\* the final call, made without tools, returns: its response is returned as is
FinalResponds ==
  \E n \in 0..MaxToolCalls :
    /\ toolRun.pc = "finalCall"
    /\ LET k == Len(toolRun.modelCalls)
       IN toolRun' = [toolRun EXCEPT !.modelCalls[k].toolCalls = n,
                                     !.pc = "done", !.returned = k]
    /\ lastOp' = NoOp
    /\ UNCHANGED <<now, store, dbConversations, dbMessages, usedIds, turns, toolCache,
                   registryVars>>

ToolTick == TickUntil(ChatMaxTime)

ToolNext ==
  \/ ToolTick
  \/ StartToolRun
  \/ ModelResponds
  \/ ModelFails
  \/ ExecuteToolCall
  \/ FinalResponds

ToolSpec == StoreInit /\ [][ToolNext]_vars

(***************************************************************************)
(* The tool registry on its own: register, and executeCall followed across *)
(* the await of the handler, so that invocations overlap.                  *)
(***************************************************************************)
\* the definitions register is called with, named by their handler
Definitions == RegisteredTools

\* an executeCall that runs the handler of the first registered tool when
\* the name is unknown
executeCall_begin_noLookup(reg, cache, name, args, t) ==
  LET cacheKey == _cacheKey(name, args)
  IN IF /\ name \in DOMAIN reg.tools
        /\ cacheKey \in DOMAIN cache
        /\ (t - cache[cacheKey].at) * UnitMs < cache_ttl(reg.tools[name])
     THEN [pc |-> "hit", error |-> "", result |-> cache[cacheKey].data]
     ELSE [pc |-> "running", error |-> "", result |-> ""]

\* executeCall up to the await of the handler: the lookup of the tool and
\* the lookup of the cache
executeCall_begin(reg, cache, name, args, t) ==
  IF name \notin DOMAIN reg.tools
  THEN [pc |-> "threw", error |-> "Unknown tool", result |-> ""]
  ELSE LET cacheKey == _cacheKey(name, args)
       IN IF /\ cacheKey \in DOMAIN cache
             /\ (t - cache[cacheKey].at) * UnitMs < cache_ttl(reg.tools[name])
          THEN [pc |-> "hit", error |-> "", result |-> cache[cacheKey].data]
          ELSE [pc |-> "running", error |-> "", result |-> ""]

\* executeCall after the handler returned: the result is cached and returned
executeCall_end(cache, name, args, t) ==
  LET cacheKey == _cacheKey(name, args)
  IN [k \in DOMAIN cache \cup {cacheKey} |->
        IF k = cacheKey THEN [at |-> t, data |-> "data"] ELSE cache[k]]

\* a catch that stores the failure under the key before it rethrows
executeCall_catch_caching(cache, name, args, t) ==
  LET cacheKey == _cacheKey(name, args)
  IN [k \in DOMAIN cache \cup {cacheKey} |->
        IF k = cacheKey THEN [at |-> t, data |-> "error"] ELSE cache[k]]

\* executeCall after the handler threw: the catch logs and rethrows, the
\* cache is not written
executeCall_catch(cache, name, args, t) == cache

Running == {k \in DOMAIN invocations : invocations[k].pc = "running"}

\* toolRegistry.register is called
Register ==
  \E name \in ToolNames, definition \in Definitions :
    LET r == register(registry, name, definition)
    IN /\ registry' = r.reg
       /\ lastOp' = [op |-> "register", name |-> name, definition |-> definition,
                     threw |-> r.threw, error |-> r.error]
       /\ UNCHANGED <<now, store, dbConversations, dbMessages, usedIds, turns,
                      toolRun, toolCache, invocations>>

\* toolRegistry.executeCall is called and runs up to the await of the handler
ExecuteCallBegins ==
  \E name \in ToolNames, args \in ArgSets :
    /\ Len(invocations) < MaxCalls
    /\ LET r == executeCall_begin(registry, toolCache, name, args, now)
       IN /\ invocations' = Append(invocations,
                [name |-> name, args |-> args, at |-> now, pc |-> r.pc,
                 handler |-> IF r.pc = "running" /\ name \in DOMAIN registry.tools
                             THEN registry.tools[name] ELSE "none",
                 invoked |-> r.pc = "running"])
          /\ lastOp' = [op |-> "executeCall", name |-> name, args |-> args,
                        threw |-> r.pc = "threw", error |-> r.error]
    /\ UNCHANGED <<now, store, dbConversations, dbMessages, usedIds, turns,
                   toolRun, toolCache, registry>>

\* the handler of a running invocation returns
HandlerReturns ==
  \E k \in Running :
    /\ ~handlerThrows(invocations[k].handler, invocations[k].args, "ok")
    /\ toolCache' = executeCall_end(toolCache, invocations[k].name, invocations[k].args, now)
    /\ invocations' = [invocations EXCEPT ![k].pc = "returned"]
    /\ lastOp' = NoOp
    /\ UNCHANGED <<now, store, dbConversations, dbMessages, usedIds, turns,
                   toolRun, registry>>

\* the handler of a running invocation throws, and executeCall with it
HandlerThrows ==
  \E k \in Running, env \in HandlerEnvs :
    /\ handlerThrows(invocations[k].handler, invocations[k].args, env)
    /\ toolCache' = executeCall_catch(toolCache, invocations[k].name, invocations[k].args, now)
    /\ invocations' = [invocations EXCEPT ![k].pc = "threw"]
    /\ lastOp' = NoOp
    /\ UNCHANGED <<now, store, dbConversations, dbMessages, usedIds, turns,
                   toolRun, registry>>

\* handlers end (their requests time out) long before the clock moves on
RegistryTick ==
  /\ Running = {}
  /\ TickUntil(ChatMaxTime)

RegistryNext ==
  \/ RegistryTick
  \/ Register
  \/ ExecuteCallBegins
  \/ HandlerReturns
  \/ HandlerThrows

RegistrySpec == StoreInit /\ [][RegistryNext]_vars

\* The registry with a clock that keeps going.  Nothing makes a handler
\* settle: executeCall awaits tool.handler(args, context) with no timer beside
\* it, and the handler of web_search awaits axios.get without a timeout, so
\* no fairness is assumed of HandlerReturns and HandlerThrows.
RegistryLiveSpec == RegistrySpec /\ WF_vars(RegistryTick)

(***************************************************************************)
(* validateCall on argument objects: the validators Ajv compiles from the  *)
(* schemas of the registered tools, with useDefaults and removeAdditional  *)
(* 'failing'.  An object is a function from its property names to values. *)
(***************************************************************************)
Props == {"query", "max_results", "focus", "urls", "extract_mode"}

\* values a caller may put under a property: two that the schemas can accept
\* somewhere and one that no schema accepts
ValuesOf(p) ==
  CASE p = "query"        -> <<"x", "#number">>
    [] p = "max_results"  -> <<"5", "25">>
    [] p = "focus"        -> <<"news", "bogus">>
    [] p = "urls"         -> <<"[u]", "#string">>
    [] p = "extract_mode" -> <<"full", "bogus">>

\* the object that carries, for every property p, nothing (0) or the value
\* number pick[p] of ValuesOf(p)
ObjectOf(pick) == [p \in {q \in Props : pick[q] # 0} |-> ValuesOf(p)[pick[p]]]
ArgObjects == {ObjectOf(pick) : pick \in [Props -> 0..2]}

\* schema.properties of a tool
SchemaProperties(name) ==
  IF name = "web_search" THEN {"query", "max_results", "focus"}
  ELSE {"urls", "extract_mode"}

\* the values the schema of a property accepts (type, maximum, enum, items)
Accepts(p) ==
  CASE p = "query"        -> {"x"}
    [] p = "max_results"  -> {"5", "10"}
    [] p = "focus"        -> {"general", "news", "academic", "recent"}
    [] p = "urls"         -> {"[u]"}
    [] p = "extract_mode" -> {"readable", "full", "metadata"}

\* the defaults a schema declares
SchemaDefaults(name) ==
  IF name = "web_search"
  THEN [p \in {"max_results", "focus"} |-> IF p = "max_results" THEN "10" ELSE "general"]
  ELSE [p \in {"extract_mode"} |-> "readable"]

\* a validator compiled without useDefaults
validate_noDefaults(name, data) ==
  [data |-> data,
   valid |-> /\ Required(name) \subseteq DOMAIN data
             /\ \A p \in DOMAIN data \cap SchemaProperties(name) : data[p] \in Accepts(p)]

\* the compiled validator: defaults are assigned to the absent properties,
\* then required and the present properties are checked; the schemas have no
\* additionalProperties, so no property is removed
validate(name, data) ==
  LET defaults == SchemaDefaults(name)
      filled == [p \in DOMAIN data \cup DOMAIN defaults |->
                   IF p \in DOMAIN data THEN data[p] ELSE defaults[p]]
  IN [data |-> filled,
      valid |-> /\ Required(name) \subseteq DOMAIN filled
                /\ \A p \in DOMAIN filled \cap SchemaProperties(name) :
                     filled[p] \in Accepts(p)]

\* validateCall(name, args) on an object: what it throws and what args is
\* afterwards
validateCallObject(name, args) ==
  IF name \notin RegisteredTools
  THEN [threw |-> TRUE, error |-> "Unknown tool", args |-> args]
  ELSE LET v == validate(name, args)
       IN IF ~v.valid
          THEN [threw |-> TRUE, error |-> "Invalid arguments", args |-> v.data]
          ELSE [threw |-> FALSE, error |-> "", args |-> v.data]

\* validateCall is called once, and called again on the object it left
ValidateCall ==
  \E name \in ToolNames, args \in ArgObjects :
    /\ lastOp = NoOp
    /\ LET r == validateCallObject(name, args)
           again == validateCallObject(name, r.args)
       IN lastOp' = [op |-> "validateCall", name |-> name, args |-> args,
                     threw |-> r.threw, after |-> r.args,
                     threwAgain |-> again.threw, afterAgain |-> again.args]
    /\ UNCHANGED <<now, store, dbConversations, dbMessages, usedIds, turns, toolVars>>

ValidateNext == ValidateCall

ValidateSpec == StoreInit /\ [][ValidateNext]_vars

(***************************************************************************)
(* The cache key of executeCall on argument objects.  An object is given   *)
(* by its properties in the order of their insertion, which is the order   *)
(* JSON.stringify writes them in.                                          *)
(***************************************************************************)
MaxKeyCalls == 2

\* the properties a caller of web_search may pass, with their values
KeyPairs == {<<"query", "x">>, <<"max_results", "10">>, <<"max_results", "5">>}

\* objects with at most two properties, no property twice
OrderedObjects ==
  {<<>>} \cup {<<p>> : p \in KeyPairs}
         \cup {props \in [1..2 -> KeyPairs] : props[1][1] # props[2][1]}

\* the object an ordered list of properties stands for
AsObject(props) ==
  [k \in {props[i][1] : i \in 1..Len(props)} |->
     LET i == CHOOSE j \in 1..Len(props) : props[j][1] = k IN props[i][2]]

\* the canonical form of args: its properties whatever their order, with the
\* defaults of the schema filled in (what validateCall leaves)
Canonical(name, props) == validate(name, AsObject(props)).data

\* executeCall(name, args) on an object, with a handler that returns at once
ExecuteCallOnObject ==
  \E name \in RegisteredTools, args \in OrderedObjects :
    /\ Len(invocations) < MaxKeyCalls
    /\ LET r == executeCall_begin(registry, toolCache, name, args, now)
       IN /\ invocations' = Append(invocations,
                [name |-> name, args |-> args, at |-> now,
                 pc |-> IF r.pc = "running" THEN "returned" ELSE r.pc,
                 handler |-> registry.tools[name],
                 invoked |-> r.pc = "running"])
          /\ toolCache' = IF r.pc = "running"
                          THEN executeCall_end(toolCache, name, args, now)
                          ELSE toolCache
          /\ lastOp' = [op |-> "executeCall", name |-> name, args |-> args,
                        threw |-> r.pc = "threw", error |-> r.error]
    /\ UNCHANGED <<now, store, dbConversations, dbMessages, usedIds, turns,
                   toolRun, registry>>

KeyTick == TickUntil(ChatMaxTime)

KeyNext ==
  \/ KeyTick
  \/ ExecuteCallOnObject

KeySpec == StoreInit /\ [][KeyNext]_vars

(***************************************************************************)
(* The provider surface of the registry: getOpenAITools, getGrokTools,     *)
(* getGeminiTools and _select, as formatTools of the adapters calls them.  *)
(***************************************************************************)
MaxNames == 2

\* lists of names a caller may pass, unregistered names and repetitions included
NameLists == UNION {[1..n -> ToolNames] : n \in 0..MaxNames}

\* list(): the tools in the order of their first registration; the tools of
\* registerAllTools come first, a later one after them
CatalogOrder == <<"web_search", "web_fetch", "calculator">>
list(reg) ==
  LET names == SelectSeq(CatalogOrder, LAMBDA n : n \in DOMAIN reg.tools)
  IN [i \in 1..Len(names) |-> [name |-> names[i], schema |-> reg.tools[names[i]]]]

\* a _select that does not filter
_select_noFilter(reg, names) == list(reg)

\* _select(names): every tool when names is empty, else the tools named
_select(reg, names) ==
  IF Len(names) = 0 THEN list(reg)
  ELSE LET wanted == {names[i] : i \in 1..Len(names)}
       IN SelectSeq(list(reg), LAMBDA t : t.name \in wanted)

getOpenAITools(reg, names) ==
  LET tools == _select(reg, names)
  IN [i \in 1..Len(tools) |->
        [type |-> "function", name |-> tools[i].name, parameters |-> tools[i].schema]]

getGeminiTools(reg, names) ==
  LET tools == _select(reg, names)
  IN <<[functionDeclarations |->
          [i \in 1..Len(tools) |->
             [name |-> tools[i].name, parameters |-> tools[i].schema]]]>>

\* adapter.formatTools(names)
formatTools(provider, reg, names) ==
  IF provider = "gemini" THEN getGeminiTools(reg, names) ELSE getOpenAITools(reg, names)

\* the names of the tool specs a result of formatTools holds, one per spec
SpecNames(provider, ret) ==
  LET specs == IF provider = "gemini" THEN ret[1].functionDeclarations ELSE ret
  IN [i \in 1..Len(specs) |-> specs[i].name]

\* formatTools is called, and called again with the same names
FormatTools ==
  \E provider \in Providers, names \in NameLists :
    /\ lastOp' = [op |-> "formatTools", provider |-> provider, names |-> names,
                  ret |-> formatTools(provider, registry, names),
                  again |-> formatTools(provider, registry, names)]
    /\ UNCHANGED <<now, store, dbConversations, dbMessages, usedIds, turns, toolVars>>

FormatNext ==
  \/ Register
  \/ FormatTools

FormatSpec == StoreInit /\ [][FormatNext]_vars

(***************************************************************************)
(* formatToolResults of the OpenAI and Grok adapters, with the content of  *)
(* the messages it makes.                                                  *)
(***************************************************************************)
MaxFormatCalls == 2
MaxFormatResults == 2

\* the ids a call or a result may carry; the last one is never a call's id
FormatCallIds == 1..MaxFormatCalls
FormatResultIds == 1..(MaxFormatCalls + 1)

\* the entries executeConversationWithTools pushes: {id, name, result} after
\* a successful call, {id, name, error: error.message} after a failed one
ResultEntries ==
  {[id |-> i, name |-> "web_search", result |-> r[1], error |-> r[2]] :
     i \in FormatResultIds, r \in {<<"data", "">>, <<"", "handler failed">>}}
FormatCallLists ==
  UNION {[1..n -> {[id |-> i, name |-> "web_search", args |-> {"query"}] :
                     i \in FormatCallIds}] : n \in 0..MaxFormatCalls}
FormatResultLists == UNION {[1..n -> ResultEntries] : n \in 0..MaxFormatResults}

\* JSON.stringify of a result, and of the object {error: message}
JSON_stringify(kind, value) == <<"json", kind, value>>

\* results.find(r => r.id === call.id): the index of the first result of
\* that id, 0 when there is none
find(results, id) ==
  LET found == {j \in 1..Len(results) : results[j].id = id}
  IN IF found = {} THEN 0 ELSE CHOOSE j \in found : \A m \in found : j <= m

\* the content of a message: JSON.stringify(res?.result ?? { error: res?.error || 'no result' })
toolContent(results, id) ==
  LET j == find(results, id)
  IN IF j # 0 /\ results[j].result # "" THEN JSON_stringify("result", results[j].result)
     ELSE IF j # 0 /\ results[j].error # "" THEN JSON_stringify("error", results[j].error)
     ELSE JSON_stringify("error", "no result")

\* a variant that makes one message per result instead of one per call
toolMessages_perResult(toolCalls, results) ==
  [j \in 1..Len(results) |->
     [role |-> "tool", tool_call_id |-> results[j].id, name |-> results[j].name,
      content |-> toolContent(results, results[j].id)]]

\* the loop of formatToolResults over the calls
toolMessages(toolCalls, results) ==
  [i \in 1..Len(toolCalls) |->
     [role |-> "tool", tool_call_id |-> toolCalls[i].id, name |-> toolCalls[i].name,
      content |-> toolContent(results, toolCalls[i].id)]]

\* formatToolResults is called, once, on some calls and some results
FormatToolResults ==
  \E provider \in {"openai", "grok"}, toolCalls \in FormatCallLists,
     results \in FormatResultLists :
    /\ lastOp.op # "formatToolResults"
    /\ lastOp' = [op |-> "formatToolResults", provider |-> provider,
                  toolCalls |-> toolCalls, results |-> results,
                  ret |-> toolMessages(toolCalls, results)]
    /\ UNCHANGED <<now, store, dbConversations, dbMessages, usedIds, turns, toolVars>>

ResultsNext == FormatToolResults

ResultsSpec == StoreInit /\ [][ResultsNext]_vars

(***************************************************************************)
(* The reads of the store, getMessages and getConversation, and a caller   *)
(* that changes what a read on a cache hit returned.                       *)
(***************************************************************************)
MaxMutated == 1

\* the content a caller writes into an entry
Mutated == <<"m">>

ReadCalls == {"getMessages", "getConversation"}

\* what a caller may change in the value a read returned: a field of the
\* returned object, the returned list (push, pop, assignment to an index),
\* or a field of an entry of that list
MutationTargets == {"object", "list", "entry"}

\* the cached array a read on a cache hit slices: convo.messages for
\* getMessages, convo.transcript.chatHistory for getConversation
slice(s, read, id) ==
  IF read = "getMessages" THEN s.cache[id].messages
  ELSE s.cache[id].transcript.chatHistory

\* the caller assigns to the content of entry k of the returned list.
\* slice() copies the array and not its elements, so entry k of the copy is
\* the object the cached array holds at k
writeEntry(s, read, id, k, content) ==
  IF read = "getMessages"
  THEN [s EXCEPT !.cache[id].messages[k].content = content]
  ELSE [s EXCEPT !.cache[id].transcript.chatHistory[k].content = content]

\* the caller changes the returned value.  The returned object and the
\* returned list are fresh, so a change of them stays with the caller
mutateReturned(s, read, id, target, k) ==
  IF target = "entry" THEN writeEntry(s, read, id, k, Mutated) ELSE s

\* the cached entries a caller has written into
MutatedEntries(s) ==
  {<<read, id, k>> \in ReadCalls \X Ids \X (1..MaxRows) :
     /\ id \in DOMAIN s.cache
     /\ k <= Len(slice(s, read, id))
     /\ slice(s, read, id)[k].content = Mutated}

ReadMessages ==
  \E id \in Ids :
    /\ lastOp' = [op |-> "getMessages", id |-> id, hit |-> id \in DOMAIN store,
                  ret |-> getMessages(St, id)]
    /\ UNCHANGED <<now, store, dbConversations, dbMessages, usedIds, turns, toolVars>>

ReadConversation ==
  \E id \in Ids :
    /\ lastOp' = [op |-> "getConversation", id |-> id, hit |-> id \in DOMAIN store,
                  ret |-> getConversation(St, id)]
    /\ UNCHANGED <<now, store, dbConversations, dbMessages, usedIds, turns, toolVars>>

\* a caller reads a cached conversation and changes what it got
CallerMutates ==
  \E id \in DOMAIN store, read \in ReadCalls, target \in MutationTargets :
    \E k \in IF target = "entry" THEN 1..Len(slice(St, read, id)) ELSE {1} :
      /\ Cardinality(MutatedEntries(St)) < MaxMutated
      /\ SetSt(mutateReturned(St, read, id, target, k))
      /\ lastOp' = [op |-> "callerMutates", id |-> id, read |-> read,
                    target |-> target, k |-> k]
      /\ UNCHANGED <<now, usedIds, turns, toolVars>>

ReadNext ==
  \/ StoreNext
  \/ ReadMessages
  \/ ReadConversation
  \/ CallerMutates

ReadSpec == StoreInit /\ [][ReadNext]_vars

(***************************************************************************)
(* Routes of /v1/conversations: list, get and delete, over a store holding *)
(* several conversations.                                                  *)
(***************************************************************************)
ListIds == 1..MaxListed
Limits == 0..(MaxListed + 1)
Offsets == 0..MaxListed

\* the orders in which ORDER BY updated_at DESC may return the rows: rows of
\* equal updated_at come in an order the database chooses
UpdatedDescOrders(s) ==
  {ord \in [1..Cardinality(DOMAIN s.convs) -> DOMAIN s.convs] :
     /\ \A i, j \in DOMAIN ord : i # j => ord[i] # ord[j]
     /\ \A i, j \in DOMAIN ord :
          i < j => s.convs[ord[i]].updated_at >= s.convs[ord[j]].updated_at}

\* LIMIT ? OFFSET ? over the ordered rows
Window(rows, limit, offset) ==
  SubSeq(rows, offset + 1, IF offset + limit < Len(rows) THEN offset + limit ELSE Len(rows))

\* listConversations.all(limit, offset)
db_getConversations(s, ord, limit, offset) ==
  Window([i \in DOMAIN ord |->
            [id |-> ord[i], created_at |-> s.convs[ord[i]].created_at,
             updated_at |-> s.convs[ord[i]].updated_at]],
         limit, offset)

\* a list taken from the hot cache
getConversationList_fromCache(s, ord, limit, offset) ==
  Window(SelectSeq([i \in DOMAIN ord |->
                      [id |-> ord[i], created_at |-> s.convs[ord[i]].created_at,
                       updated_at |-> s.convs[ord[i]].updated_at]],
                   LAMBDA row : row.id \in DOMAIN s.cache),
         limit, offset)

getConversationList(s, ord, limit, offset) ==
  db_getConversations(s, ord, limit, offset)

\* GET /v1/conversations/:id
getConversationRoute(s, id) ==
  LET conversation == getConversation(s, id)
  IN IF conversation = NoConversation
     THEN [status |-> 404, body |-> [error |-> "Conversation not found"]]
     ELSE [status |-> 200, body |-> [conversationId |-> id, conversation |-> conversation]]

\* a DELETE that answers deleted:true whatever delete() returned
deleteConversationRoute_noCheck(s, id) ==
  LET r == delete(s, id)
  IN [s |-> r.s, status |-> 200, body |-> [conversationId |-> id, deleted |-> TRUE]]

\* DELETE /v1/conversations/:id
deleteConversationRoute(s, id) ==
  LET r == delete(s, id)
  IN IF ~r.ret
     THEN [s |-> r.s, status |-> 404, body |-> [error |-> "Conversation not found"]]
     ELSE [s |-> r.s, status |-> 200, body |-> [conversationId |-> id, deleted |-> TRUE]]

\* the least id of ListIds never handed out
FreshListIds == {id \in ListIds \ usedIds : \A other \in ListIds \ usedIds : id <= other}

CreateListed ==
  \E id \in FreshListIds :
    /\ SetSt(createConversation(St, id, now))
    /\ usedIds' = usedIds \cup {id}
    /\ lastOp' = [op |-> "create", id |-> id]
    /\ UNCHANGED <<now, turns, toolVars>>

AppendListed ==
  \E id \in usedIds, role \in AppendRoles, content \in Contents :
    /\ Len(dbMessages) < MaxListedRows
    /\ id \in DOMAIN store => Len(store[id].messages) < MaxListedRows
    /\ SetSt(appendMessage(St, id, role, content, now).s)
    /\ lastOp' = [op |-> "append", id |-> id, role |-> role]
    /\ UNCHANGED <<now, usedIds, turns, toolVars>>

GetConversation ==
  \E id \in ListIds :
    LET r == getConversationRoute(St, id)
    IN /\ lastOp' = [op |-> "GET", id |-> id, status |-> r.status, body |-> r.body]
       /\ UNCHANGED <<now, store, dbConversations, dbMessages, usedIds, turns, toolVars>>

DeleteConversationById ==
  \E id \in ListIds :
    LET r == deleteConversationRoute(St, id)
    IN /\ SetSt(r.s)
       /\ lastOp' = [op |-> "DELETE", id |-> id, status |-> r.status, body |-> r.body]
       /\ UNCHANGED <<now, usedIds, turns, toolVars>>

ListConversations ==
  \E limit \in Limits, offset \in Offsets, ord \in UpdatedDescOrders(St) :
    /\ lastOp' = [op |-> "list", limit |-> limit, offset |-> offset,
                  ret |-> getConversationList(St, ord, limit, offset)]
    /\ UNCHANGED <<now, store, dbConversations, dbMessages, usedIds, turns, toolVars>>

ConvNext ==
  \/ Tick
  \/ CreateListed
  \/ AppendListed
  \/ Cleanup
  \/ GetConversation
  \/ DeleteConversationById
  \/ ListConversations

ConvSpec == StoreInit /\ [][ConvNext]_vars

(***************************************************************************)
(* Claims about the store.                                                 *)
(***************************************************************************)
RoleContent(ms) == [i \in 1..Len(ms) |-> [role |-> ms[i].role, content |-> ms[i].content]]

\* C2: every conversation held in the hot cache has the same ordered
\* (role, content) sequence as persistent storage holds for that id.
C2_CacheMatchesPersistent ==
  \A id \in DOMAIN store :
    store[id].messages = RoleContent(db_getConversationMessages(St, id))

\* C3: appendMessage(id, m) on an existing conversation, cached or not,
\* followed by getConversation(id) gives a history whose last entry is m and
\* an updatedAt that is at least m's timestamp.
C3_AppendThenGet ==
  (lastOp.op = "append" /\ lastOp.id \in DOMAIN dbConversations) =>
    LET c == getConversation(St, lastOp.id)
    IN /\ c # NoConversation
       /\ c.chatHistory # <<>>
       /\ Last(c.chatHistory).role = lastOp.role
       /\ Last(c.chatHistory).content = lastOp.content
       /\ c.updatedAt >= Last(c.chatHistory).at

(***************************************************************************)
(* Claims about the chat routes.                                           *)
(***************************************************************************)
IsPrefix(a, b) == Len(a) <= Len(b) /\ SubSeq(b, 1, Len(a)) = a
Streaming(t) == turns[t].endpoint \in {"stream", "refresh"}
UserMessageOf(t) == [role |-> "user", content |-> turns[t].input]
AssistantMessageOf(t) == [role |-> "assistant", content |-> turns[t].assistantText]
TokensOf(events) ==
  LET toks == SelectSeq(events, LAMBDA e : e.type = "token")
  IN [i \in 1..Len(toks) |-> toks[i].token]
NonEmptyChunks(chunks) == SelectSeq(chunks, LAMBDA c : c # <<>>)

\* C1: the store writes of turns running concurrently on one conversation do
\* not interleave: in the history the user message of a turn is immediately
\* followed by the assistant message of that same turn.
C1_TurnsDoNotInterleave ==
  \A t \in Turns :
    (turns[t].outcome = "ok" /\ ~turns[t].regenerate /\ turns[t].assistantText # <<>>) =>
      LET h == getMessages(St, turns[t].conversationId)
      IN \A i, j \in 1..Len(h) :
           (h[i] = UserMessageOf(t) /\ h[j] = AssistantMessageOf(t)) => j = i + 1

\* C4: a POST /v1/chat without conversationId whose provider call succeeds
\* creates a conversation, and a GET of that conversation then shows exactly
\* the user message followed by the assistant message.
C4_NewConversationShowsTwoMessages ==
  \A t \in Turns :
    (/\ turns[t].endpoint = "chat" /\ turns[t].created
     /\ turns[t].outcome = "ok" /\ ~turns[t].interfered) =>
      LET c == getConversation(St, turns[t].conversationId)
      IN /\ turns[t].status = 200
         /\ c # NoConversation
         /\ RoleContent(c.chatHistory) =
              <<UserMessageOf(t), [role |-> "assistant", content |-> turns[t].response]>>

C4_Witness ==
  \E t \in Turns :
    /\ turns[t].endpoint = "chat" /\ turns[t].created
    /\ turns[t].outcome = "ok" /\ ~turns[t].interfered
    /\ turns[t].conversationId \notin DOMAIN store

C9_ProviderFailureKeepsHistory ==
  \A t \in Turns :
    (turns[t].outcome = "providerError" /\ ~turns[t].interfered) =>
      LET h == getMessages(St, turns[t].conversationId)
      IN /\ turns[t].endpoint = "chat" => turns[t].status >= 500
         /\ Streaming(t) => Last(turns[t].events).type = "error"
         /\ IsPrefix(turns[t].before, h)
         /\ h \in {turns[t].before, Append(turns[t].before, UserMessageOf(t))}

ToolCallFailed(toolCall, ex) ==
  \/ toolCall.name \notin RegisteredTools
  \/ ~(Required(toolCall.name) \subseteq toolCall.args)
  \/ ex.handlerThrew

ToolEnabledCalls == {i \in 1..Len(toolRun.modelCalls) : toolRun.modelCalls[i].tools}

\* C5: with a provider that returns at least one tool call in every response
\* to a tool-enabled request, the loop ends after at most maxToolRounds + 1
\* model calls: at most maxToolRounds of them offer tools, and the last one is
\* made without tools and its response is the one returned.
C5_LoopEndsWithinMaxRounds ==
  LET n == Len(toolRun.modelCalls)
  IN /\ n <= maxToolRounds + 1
     /\ Cardinality(ToolEnabledCalls) <= maxToolRounds
     /\ \A i \in 1..n : ~toolRun.modelCalls[i].tools => i = n
     /\ (/\ toolRun.pc = "done"
         /\ \A i \in ToolEnabledCalls : toolRun.modelCalls[i].toolCalls > 0)
        => /\ n = maxToolRounds + 1
           /\ ~toolRun.modelCalls[n].tools
           /\ toolRun.returned = n

C5_Witness ==
  /\ toolRun.pc = "done"
  /\ Len(toolRun.modelCalls) = maxToolRounds + 1
  /\ \A i \in ToolEnabledCalls : toolRun.modelCalls[i].toolCalls > 0
  /\ toolRun.returned = maxToolRounds + 1

\* C7: for every registered tool whose handler throws, executeCall does not
\* throw: it returns a tool result with its error field set.
C7_ExecuteCallReturnsError ==
  (lastOp.op = "executeCall" /\ lastOp.name \in RegisteredTools /\ lastOp.handlerThrew)
    => (~lastOp.threw /\ lastOp.error # "")

\* C8: a tool call that fails within a round (unknown tool, invalid arguments
\* or a throwing handler) never aborts the turn: the failure is recorded as a
\* tool result carrying an error, the remaining tool calls of the round are
\* still executed, and the loop goes on to the next model call.
C8_ToolFailureDoesNotAbort ==
  /\ toolRun.cause # "tool"
  /\ toolRun.pc = "executing" => toolRun.next = Len(toolRun.executed) + 1
  /\ Len(toolRun.toolResults) = Len(toolRun.executed)
  /\ \A i \in 1..Len(toolRun.executed) :
       /\ toolRun.toolResults[i].id = toolRun.toolCalls[i].id
       /\ ToolCallFailed(toolRun.toolCalls[i], toolRun.executed[i])
            => toolRun.toolResults[i].error # ""
  /\ (toolRun.pc # "executing" /\ toolRun.toolCalls # <<>>)
       => /\ Len(toolRun.executed) = Len(toolRun.toolCalls)
          /\ Len(toolRun.modelCalls) > toolRun.toolRounds \/ toolRun.pc = "aborted"

C8_Witness ==
  /\ toolRun.pc \in {"awaitingModel", "finalCall"}
  /\ Len(toolRun.toolCalls) = MaxToolCalls
  /\ Len(toolRun.executed) = MaxToolCalls
  /\ ToolCallFailed(toolRun.toolCalls[1], toolRun.executed[1])
  /\ toolRun.toolResults[1].error # ""
  /\ toolRun.toolResults[MaxToolCalls].error = ""
  /\ Len(toolRun.modelCalls) = toolRun.toolRounds + 1

(***************************************************************************)
(* Claims about regeneration.                                              *)
(***************************************************************************)
LastIsAssistant(h) == h # <<>> /\ Last(h).role = "assistant"

\* turn t is a POST /v1/chat/refresh that names a conversation and whose
\* handler runs in this step up to its reply or its provider call
RefreshStarts(t) ==
  /\ turns[t].pc = "idle"
  /\ turns'[t].pc # "idle"
  /\ turns'[t].endpoint = "refresh"
  /\ turns'[t].conversationId # NoId

\* C11: POST /v1/chat/refresh on a conversation whose last message is not an
\* assistant message (or whose history is empty) returns 400 and leaves the
\* conversation unchanged in the cache and in the database; and refresh never
\* returns 400 after having removed a message.
C11_RefreshWithoutAssistantIs400 ==
  [][\A t \in Turns :
       RefreshStarts(t) =>
         /\ ~LastIsAssistant(getMessages(St, turns'[t].conversationId))
              => /\ turns'[t].status = 400
                 /\ UNCHANGED <<store, dbConversations, dbMessages>>
         /\ turns'[t].status = 400
              => UNCHANGED <<store, dbConversations, dbMessages>>]_vars

\* C12: both regeneration entry points, on a conversation whose last message
\* is an assistant message, remove it before calling the model: the model
\* never receives it, and after the turn the history has the length it had
\* before, with the new assistant message in the place of the old one and no
\* two consecutive assistant messages.
C12_RegenerateReplacesAssistant ==
  \A t \in Turns :
    (/\ turns[t].regenerate
     /\ Streaming(t)
     /\ LastIsAssistant(turns[t].before)
     /\ turns[t].outcome \notin {"rejected", "storeError"}) =>
      /\ turns[t].history = Front(turns[t].before)
      /\ (turns[t].outcome = "ok" /\ ~turns[t].interfered) =>
           LET h == getMessages(St, turns[t].conversationId)
           IN /\ Len(h) = Len(turns[t].before)
              /\ Front(h) = Front(turns[t].before)
              /\ Last(h) = [role |-> "assistant", content |-> turns[t].assistantText]
              /\ \A i \in 1..(Len(h) - 1) :
                   ~(h[i].role = "assistant" /\ h[i + 1].role = "assistant")

(***************************************************************************)
(* Claims about deleting and listing conversations.                        *)
(***************************************************************************)
\* C13: delete(id) reports ok exactly when the conversation existed in the
\* database before the call, cached or not, and after the call the
\* conversation and all its messages are absent from the cache and from the
\* database.
C13_DeleteReportsExistence ==
  [][lastOp'.op = "delete" =>
       /\ lastOp'.ret = (lastOp'.id \in DOMAIN dbConversations)
       /\ lastOp'.id \notin DOMAIN store'
       /\ lastOp'.id \notin DOMAIN dbConversations'
       /\ RowsOf(dbMessages', lastOp'.id) = <<>>]_vars

\* the conversation is neither in the database nor in the cache
Nonexistent(id) == id \notin DOMAIN dbConversations /\ id \notin DOMAIN store

\* C14 as stated: DELETE /v1/conversations/:id on an id that does not exist
\* returns 404 with body {error: "Not found"}, changes nothing in the store,
\* and a GET of the same id that follows also returns 404.
C14_DeleteNonexistentIs404 ==
  [][/\ (lastOp'.op = "DELETE" /\ Nonexistent(lastOp'.id))
          => /\ lastOp'.status = 404
             /\ lastOp'.body = [error |-> "Not found"]
             /\ UNCHANGED <<store, dbConversations, dbMessages>>
     /\ (/\ lastOp.op = "DELETE" /\ lastOp.status = 404
         /\ lastOp'.op = "GET" /\ lastOp'.id = lastOp.id)
          => lastOp'.status = 404]_vars

\* C14 amended: as C14, with the body the routes send, {error: "Conversation
\* not found"}.
C14_DeleteNonexistentIs404_ConversationNotFound ==
  [][/\ (lastOp'.op = "DELETE" /\ Nonexistent(lastOp'.id))
          => /\ lastOp'.status = 404
             /\ lastOp'.body = [error |-> "Conversation not found"]
             /\ UNCHANGED <<store, dbConversations, dbMessages>>
     /\ (/\ lastOp.op = "DELETE" /\ lastOp.status = 404
         /\ lastOp'.op = "GET" /\ lastOp'.id = lastOp.id)
          => lastOp'.status = 404]_vars

\* a DELETE of an id that was created and deleted before has answered 404
C14_Witness ==
  /\ lastOp.op = "DELETE"
  /\ lastOp.status = 404
  /\ lastOp.id \in usedIds
  /\ Nonexistent(lastOp.id)

SameCall(a, b) == a.name = b.name /\ a.args = b.args

\* invocation j starts within the cache TTL of the tool, counted from the
\* start of invocation i
WithinTtl(i, j) ==
  /\ i < j
  /\ SameCall(invocations[i], invocations[j])
  /\ invocations[j].name \in DOMAIN registry.tools
  /\ (invocations[j].at - invocations[i].at) * UnitMs < cache_ttl(registry.tools[invocations[j].name])

\* C15: two executeCall invocations with the same name and args that start
\* within the TTL, overlapping or not, invoke the handler at most once in
\* total; an identical invocation after the TTL has expired invokes the
\* handler again.
C15_HandlerOncePerTtl ==
  \A i, j \in DOMAIN invocations :
    /\ WithinTtl(i, j) => ~(invocations[i].invoked /\ invocations[j].invoked)
    /\ (/\ i < j
        /\ SameCall(invocations[i], invocations[j])
        /\ invocations[j].pc # "threw" \/ invocations[j].invoked
        /\ \A k \in 1..(j - 1) :
             SameCall(invocations[k], invocations[j]) => ~WithinTtl(k, j))
       => invocations[j].invoked

\* C16: executeCall with a name that is not registered fails with an
\* unknown-tool error, invokes no handler and leaves the result cache
\* unchanged.
C16_UnknownToolFails ==
  [][(lastOp'.op = "executeCall" /\ lastOp'.name \notin DOMAIN registry.tools) =>
       /\ lastOp'.threw
       /\ lastOp'.error = "Unknown tool"
       /\ ~Last(invocations').invoked
       /\ Running' = Running
       /\ toolCache' = toolCache]_vars

\* an unregistered name was executed while a result is cached
C16_Witness ==
  /\ lastOp.op = "executeCall"
  /\ lastOp.name \notin DOMAIN registry.tools
  /\ lastOp.threw
  /\ toolCache # <<>>

\* C17: register with a name that is already registered fails with a
\* DuplicateTool error and leaves the existing definition and its validator
\* unchanged.
C17_DuplicateRegisterFails ==
  [][(lastOp'.op = "register" /\ lastOp'.name \in DOMAIN registry.tools) =>
       /\ lastOp'.threw
       /\ lastOp'.error = "DuplicateTool"
       /\ registry' = registry]_vars

\* C18: for a registered tool and args that satisfy its schema, validateCall
\* sets every property that has a schema default and is absent from args to
\* that default, changes no other property, and validating the result again
\* changes nothing.
C18_DefaultsAppliedOnce ==
  (/\ lastOp.op = "validateCall"
   /\ lastOp.name \in RegisteredTools
   /\ ~lastOp.threw) =>
    LET defaults == SchemaDefaults(lastOp.name)
    IN /\ DOMAIN lastOp.after = DOMAIN lastOp.args \cup DOMAIN defaults
       /\ \A p \in DOMAIN lastOp.args : lastOp.after[p] = lastOp.args[p]
       /\ \A p \in DOMAIN defaults \ DOMAIN lastOp.args : lastOp.after[p] = defaults[p]
       /\ ~lastOp.threwAgain
       /\ lastOp.afterAgain = lastOp.after

\* web_search was validated with a query and a focus of its own and no
\* max_results
C18_Witness ==
  /\ lastOp.op = "validateCall"
  /\ lastOp.name = "web_search"
  /\ ~lastOp.threw
  /\ DOMAIN lastOp.args = {"query", "focus", "urls"}
  /\ lastOp.args["focus"] = "news"
  /\ lastOp.after["max_results"] = "10"
  /\ lastOp.after["focus"] = "news"

\* the last n elements of a sequence
Tail3(h) == SubSeq(h, Len(h) - 2, Len(h))

\* the messages of a tool turn as the store was given them: the assistant
\* message carrying the tool call, the tool message of its result, the final
\* assistant message
ToolTurnAppended(id) ==
  /\ id \in DOMAIN store
  /\ Len(store[id].messages) >= 3
  /\ Tail3(store[id].messages)[1].role = "assistant"
  /\ Tail3(store[id].messages)[2].role = "tool"
  /\ Tail3(store[id].messages)[3].role = "assistant"
  /\ lastOp.op = "append" /\ lastOp.id = id /\ lastOp.role = "assistant"

\* C19: after a turn in which the model requests one tool call and then
\* answers, the history read back from the database contains, in this order,
\* the assistant message carrying the tool call, exactly one tool message for
\* its result, and the final assistant message.
C19_ToolTurnIsPersisted ==
  \A id \in Ids :
    ToolTurnAppended(id) =>
      LET h == RoleContent(db_getConversationMessages(St, id))
      IN /\ Len(h) >= 3
         /\ Tail3(h) = Tail3(store[id].messages)

(***************************************************************************)
(* Claims about failures of the store and about its timestamps.            *)
(***************************************************************************)
\* C21: when the database write of appendMessage fails, appendMessage
\* reports the failure and the hot cache is not changed: it never returns
\* success for a message that exists only in the cache.
C21_FailedWriteIsReported ==
  [][(/\ lastOp'.op = "append"
      /\ ~db_insertAccepted(St, lastOp'.id, lastOp'.role)) =>
       /\ ~lastOp'.ret
       /\ store' = store]_vars

(***************************************************************************)
(* Claims about streaming turns.                                           *)
(***************************************************************************)
RECURSIVE ConcatAll(_)
ConcatAll(chunks) == IF chunks = <<>> THEN <<>> ELSE Head(chunks) \o ConcatAll(Tail(chunks))

\* the provider call of the turn neither threw nor is still running
ProviderCompleted(t) ==
  /\ turns[t].pc = "done"
  /\ turns[t].outcome \notin {"rejected", "storeError", "providerError"}

\* C22: a streaming turn whose provider call completes appends the complete
\* assistant text exactly once, whether the client stayed connected or
\* disconnected in the middle of the turn: the history is then the history
\* the provider was given followed by one assistant message, whose content is
\* the text accumulated by the handler (on the OpenAI and Grok paths, all the
\* chunks the provider streamed).
C22_DisconnectDoesNotChangeOutcome ==
  \A t \in Turns :
    (Streaming(t) /\ ProviderCompleted(t) /\ ~turns[t].interfered) =>
      /\ turns[t].outcome = "ok"
      /\ RoleContent(getMessages(St, turns[t].conversationId)) =
            Append(RoleContent(turns[t].history), AssistantMessageOf(t))
      /\ turns[t].provider \in {"openai", "grok"} =>
            turns[t].assistantText = ConcatAll(turns[t].chunks)

C22_Witness ==
  \E t \in Turns :
    /\ Streaming(t) /\ ProviderCompleted(t) /\ ~turns[t].connected
    /\ turns[t].provider = "openai"
    /\ Len(turns[t].chunks) = 2 /\ turns[t].assistantText # <<>>
    /\ Last(turns[t].events).type = "done"
    /\ Last(getMessages(St, turns[t].conversationId)).role = "assistant"

\* the two layers after the step
StAfter == [cache |-> store', convs |-> dbConversations', rows |-> dbMessages']

\* C26: removeLastMessage(id) on a conversation with at least one message
\* removes the message getConversation(id) reported last, and no other, from
\* the cache and from the database, and returns true; on a conversation
\* without messages or an id that does not exist it returns false and
\* changes nothing.
C26_RemoveLastRemovesTheLast ==
  [][lastOp'.op = "removeLast" =>
       LET id == lastOp'.id
           c == getConversation(St, id)
           h == IF c = NoConversation THEN <<>> ELSE RoleContent(c.chatHistory)
       IN IF h # <<>>
          THEN /\ lastOp'.ret
               /\ RoleContent(getConversation(StAfter, id).chatHistory) = Front(h)
               /\ id \in DOMAIN store' => store'[id].messages = Front(h)
               /\ RoleContent(db_getConversationMessages(StAfter, id)) = Front(h)
          ELSE /\ ~lastOp'.ret
               /\ UNCHANGED <<store, dbConversations, dbMessages>>]_vars

\* the time of the last update of a conversation: the later of what the two
\* layers recorded
LastUpdate(id) ==
  IF id \in DOMAIN store /\ store[id].updatedAt > dbConversations[id].updated_at
  THEN store[id].updatedAt
  ELSE dbConversations[id].updated_at

\* C27: a cleanup sweep evicts from the cache exactly the entries last
\* updated more than the TTL ago, and deletes from the database only
\* conversations last updated more than 7 times the TTL ago: a conversation
\* updated within 7 x TTL is never deleted from the database.
C27_SweepRespectsTtl ==
  [][lastOp'.op = "cleanup" =>
       /\ \A id \in DOMAIN store :
            (id \notin DOMAIN store') = (now - store[id].updatedAt > DEFAULT_TTL_MS)
       /\ \A id \in DOMAIN dbConversations :
            id \notin DOMAIN dbConversations' =>
              now - LastUpdate(id) > dbCleanupFactor * DEFAULT_TTL_MS]_vars

\* the messages adapter.formatToolResults makes
IsToolMessage(m) == m.role \in {"tool", "function"}

\* the position of the message that immediately precedes the block of tool
\* messages in which position i lies
BlockHead(ms, i) ==
  LET before == {j \in 1..(i - 1) : ~IsToolMessage(ms[j])}
  IN IF before = {} THEN 0 ELSE CHOOSE j \in before : \A k \in before : k <= j

\* C25: in the working history of the tool loop every tool message carries
\* the id of one of the tool_calls of the assistant message that immediately
\* precedes its block of tool messages, and every tool call of that assistant
\* message has exactly one tool message with its id in the block.
C25_ToolMessagesMatchToolCalls ==
  LET ms == toolRun.currentMessages
  IN /\ \A i \in 1..Len(ms) :
          IsToolMessage(ms[i]) =>
            LET h == BlockHead(ms, i)
            IN /\ h # 0
               /\ ms[h].role = "assistant"
               /\ \E c \in 1..Len(ms[h].tool_calls) :
                     ms[h].tool_calls[c] = ms[i].tool_call_id
     /\ \A h \in 1..Len(ms) :
          \A c \in 1..Len(ms[h].tool_calls) :
            Cardinality({i \in 1..Len(ms) :
                           /\ IsToolMessage(ms[i])
                           /\ BlockHead(ms, i) = h
                           /\ ms[i].tool_call_id = ms[h].tool_calls[c]}) = 1

\* C30: in every streaming turn that ends with a done event, the text of the
\* done event is the concatenation, in the order of emission, of the tokens
\* of all token events of the stream, and it is the content of the assistant
\* message appended to the conversation for the turn.
C30_DoneTextIsTokensAndMessage ==
  \A t \in Turns :
    (/\ Streaming(t) /\ turns[t].events # <<>>
     /\ Last(turns[t].events).type = "done" /\ ~turns[t].interfered) =>
      LET done == Last(turns[t].events)
          h == getMessages(St, turns[t].conversationId)
      IN /\ done.text = ConcatAll(TokensOf(turns[t].events))
         /\ Len(h) = Len(turns[t].history) + 1
         /\ Last(h) = [role |-> "assistant", content |-> done.text]
         /\ done.conversation # NoConversation
         /\ Last(done.conversation.chatHistory).content = done.text

\* createdAt <= at of every message <= updatedAt
TimestampsOrdered(c) ==
  /\ c.createdAt <= c.updatedAt
  /\ \A i \in 1..Len(c.chatHistory) :
        c.createdAt <= c.chatHistory[i].at /\ c.chatHistory[i].at <= c.updatedAt

\* C24: with a clock that never goes backwards, every conversation
\* getConversation returns, be it the cached transcript or the one read from
\* the database, has createdAt <= timestamp of every message <= updatedAt.
C24_TimestampsOrdered ==
  \A id \in usedIds :
    /\ getConversation(St, id) # NoConversation => TimestampsOrdered(getConversation(St, id))
    /\ id \in DOMAIN dbConversations =>
          TimestampsOrdered(db_getStandardizedConversation(St, id))

C24_Witness ==
  \E id \in DOMAIN store \cap DOMAIN dbConversations :
    LET c == store[id].transcript
        d == db_getStandardizedConversation(St, id)
    IN /\ Len(c.chatHistory) = 2 /\ Len(d.chatHistory) = 2
       /\ c.createdAt < c.chatHistory[1].at
       /\ c.chatHistory[1].at < c.chatHistory[2].at
       /\ d.createdAt < d.chatHistory[1].at
       /\ d.chatHistory[1].at < d.chatHistory[2].at

\* C28: a chat turn is atomic with respect to the history: once the turn has
\* ended, either its user message and its assistant message have both been
\* appended, or, when it failed, neither has; the history of a conversation
\* on which no turn is in progress never holds two consecutive user messages.
C28_TurnIsAtomic ==
  /\ \A t \in Turns :
       (/\ turns[t].pc = "done" /\ turns[t].conversationId # NoId
        /\ turns[t].endpoint \in {"chat", "stream"} /\ ~turns[t].regenerate
        /\ ~turns[t].interfered) =>
         LET h == getMessages(St, turns[t].conversationId)
         IN IF turns[t].outcome = "ok"
            THEN h = turns[t].before \o <<UserMessageOf(t), AssistantMessageOf(t)>>
            ELSE h = turns[t].before
  /\ \A id \in usedIds :
       (\A t \in Turns : turns[t].conversationId = id => turns[t].pc = "done") =>
         LET h == getMessages(St, id)
         IN \A i \in 1..(Len(h) - 1) : ~(h[i].role = "user" /\ h[i + 1].role = "user")

\* turn t ends with this step and reports success
EndsWithSuccess(t) ==
  /\ turns[t].pc # "done"
  /\ turns'[t].pc = "done"
  /\ turns'[t].outcome = "ok"

\* C29: a chat turn (POST /v1/chat or GET /v1/chat/stream) that names a
\* conversation existing neither in the cache nor in the database never
\* reports success while losing its messages: when it answers with a 2xx
\* body or a done event, getConversation of that id returns the conversation
\* with the assistant message of the turn last and, unless the turn
\* regenerates, its user message before it.
C29_UnknownConversationKeepsMessages ==
  [][\A t \in Turns :
       (/\ EndsWithSuccess(t)
        /\ turns'[t].endpoint \in {"chat", "stream"}
        /\ ~turns'[t].created
        /\ Nonexistent(turns'[t].conversationId)) =>
         LET c == getConversation(StAfter, turns'[t].conversationId)
             h == RoleContent(c.chatHistory)
         IN /\ c # NoConversation
            /\ h # <<>>
            /\ Last(h) = [role |-> "assistant", content |-> turns'[t].assistantText]
            /\ ~turns'[t].regenerate =>
                  /\ Len(h) >= 2
                  /\ h[Len(h) - 1] = [role |-> "user", content |-> turns'[t].input]]_vars

(***************************************************************************)
(* Claims about the end of executeCall.                                    *)
(***************************************************************************)
\* C23: every executeCall invocation eventually completes, even when the
\* handler never returns: an invocation that awaits its handler eventually
\* returns or throws.
C23_ExecuteCallCompletes ==
  \A k \in 1..MaxCalls :
    (k \in Running) ~> (k \in DOMAIN invocations /\ invocations[k].pc # "running")

(***************************************************************************)
(* Claims about the order of the events of a stream.                       *)
(***************************************************************************)
IsTerminal(e) == e.type \in {"done", "error"}

\* init, then token events only, with a terminal event at most at the end
InitTokensTerminal(events) ==
  /\ events[1].type = "init"
  /\ \A i \in 2..Len(events) :
       \/ events[i].type = "token"
       \/ i = Len(events) /\ IsTerminal(events[i])

\* a turn that has ended has its terminal event, a turn that has not has none
TerminalIffEnded(t) ==
  /\ (turns[t].pc = "done" /\ turns[t].outcome # "rejected") =>
        (turns[t].events # <<>> /\ IsTerminal(Last(turns[t].events)))
  /\ turns[t].pc # "done" =>
        \A i \in 1..Len(turns[t].events) : ~IsTerminal(turns[t].events[i])

\* C31 as stated: every event stream is init, then token events, then
\* exactly one terminal event (done or error) once the provider call has
\* returned or failed; nothing precedes init and nothing follows the
\* terminal event.
C31_InitTokensTerminal ==
  \A t \in Turns :
    Streaming(t) =>
      /\ turns[t].events # <<>> => InitTokensTerminal(turns[t].events)
      /\ TerminalIffEnded(t)

\* C31 as amended: an event stream is either a single error event, sent when
\* the turn fails before the stream is set up, or init, then token events,
\* then exactly one terminal event (done or error) once the provider call has
\* returned or failed; nothing precedes init and nothing follows the
\* terminal event.
C31_InitTokensTerminal_OrLoneError ==
  \A t \in Turns :
    Streaming(t) =>
      /\ turns[t].events # <<>> =>
            \/ InitTokensTerminal(turns[t].events)
            \/ /\ turns[t].events = <<[type |-> "error"]>>
               /\ turns[t].outcome = "storeError"
      /\ TerminalIffEnded(t)

C31_Witness ==
  \E t, u \in Turns :
    /\ Streaming(t) /\ Len(turns[t].events) = 3
    /\ turns[t].events[1].type = "init" /\ turns[t].events[2].type = "token"
    /\ turns[t].events[3].type = "done"
    /\ Streaming(u) /\ turns[u].events = <<[type |-> "error"]>>

\* C32: on the Gemini path, when the streaming call fails after chunks were
\* forwarded and the fallback call succeeds, the tokens sent and the
\* assistant text persisted are the answer of the fallback exactly once:
\* nothing already sent from the failed stream is sent or kept again.
C32_FallbackAnswerOnce ==
  \A t \in Turns :
    (Streaming(t) /\ turns[t].fellBack /\ turns[t].outcome = "ok"
       /\ ~turns[t].interfered) =>
      /\ ConcatAll(TokensOf(turns[t].events)) = turns[t].response
      /\ Last(getMessages(St, turns[t].conversationId)) =
            [role |-> "assistant", content |-> turns[t].response]

(***************************************************************************)
(* Claims about the result cache of the registry.                          *)
(***************************************************************************)
\* C33: the cache is keyed by the tool name and the canonical form of args:
\* of two executeCall invocations within the TTL whose args have the same
\* properties with the same values, whatever the order of the properties and
\* whether or not the defaults of the schema were already filled in, only
\* one invokes the handler.
C33_CanonicalArgsShareEntry ==
  \A i, j \in DOMAIN invocations :
    (/\ i < j
     /\ invocations[i].name = invocations[j].name
     /\ Canonical(invocations[i].name, invocations[i].args) =
          Canonical(invocations[j].name, invocations[j].args)
     /\ (invocations[j].at - invocations[i].at) * UnitMs < cache_ttl(invocations[j].name))
      => ~(invocations[i].invoked /\ invocations[j].invoked)

\* C34: a failed execution is never cached: the step in which executeCall
\* fails leaves the result cache as it was, entries of earlier successes
\* included, and an executeCall whose earlier invocations with the same name
\* and args all failed invokes the handler again.
C34_FailureIsNotCached ==
  [][/\ (\E k \in DOMAIN invocations :
          invocations[k].pc = "running" /\ invocations'[k].pc = "threw")
        => toolCache' = toolCache
     /\ \A j \in DOMAIN invocations' \ DOMAIN invocations :
          (/\ invocations'[j].name \in DOMAIN registry.tools
           /\ \A i \in DOMAIN invocations :
                SameCall(invocations[i], invocations'[j]) => invocations[i].pc = "threw")
            => invocations'[j].invoked]_vars

C34_Witness ==
  \E i, j \in DOMAIN invocations :
    /\ i < j /\ SameCall(invocations[i], invocations[j])
    /\ invocations[i].pc = "returned"
    /\ invocations[j].pc = "threw" /\ invocations[j].invoked
    /\ _cacheKey(invocations[i].name, invocations[i].args) \in DOMAIN toolCache
    /\ toolCache[_cacheKey(invocations[i].name, invocations[i].args)].data = "data"

(***************************************************************************)
(* Claims about formatTools and formatToolResults.                         *)
(***************************************************************************)
\* the names of the list that are registered
RegisteredAmong(names) == {names[i] : i \in 1..Len(names)} \cap DOMAIN registry.tools

\* the result of the last formatTools holds one spec for each tool of S and
\* no other spec
HoldsExactly(S) ==
  LET got == SpecNames(lastOp.provider, lastOp.ret)
  IN /\ {got[i] : i \in 1..Len(got)} = S
     /\ Len(got) = Cardinality(S)

\* C35 as stated: for every list of names, the empty list and lists with
\* unregistered names included, formatTools returns one tool spec for each
\* registered tool named in the list and none for any other tool, changes
\* neither the catalog nor the result cache, and returns an equal result
\* when called again.
C35_FormatToolsSelectsNamed ==
  [][lastOp'.op = "formatTools" =>
       /\ HoldsExactly(RegisteredAmong(lastOp.names))'
       /\ lastOp'.again = lastOp'.ret
       /\ UNCHANGED <<registry, toolCache>>]_vars

\* C35 as amended: for every non-empty list of names, lists with
\* unregistered names included, formatTools returns one tool spec for each
\* registered tool named in the list and none for any other tool; for the
\* empty list it returns one spec for every registered tool; it changes
\* neither the catalog nor the result cache, and returns an equal result
\* when called again.
C35_FormatToolsSelectsNamed_EmptyIsAll ==
  [][lastOp'.op = "formatTools" =>
       /\ (IF lastOp.names = <<>>
           THEN HoldsExactly(DOMAIN registry.tools)
           ELSE HoldsExactly(RegisteredAmong(lastOp.names)))'
       /\ lastOp'.again = lastOp'.ret
       /\ UNCHANGED <<registry, toolCache>>]_vars

C35_Witness ==
  /\ lastOp.op = "formatTools"
  /\ lastOp.provider = "gemini"
  /\ lastOp.names = <<"calculator", "web_fetch">>
  /\ "calculator" \in DOMAIN registry.tools
  /\ SpecNames(lastOp.provider, lastOp.ret) = <<"web_fetch", "calculator">>

C37_ReturnedValueIsACopy ==
  [][lastOp'.op = "callerMutates" =>
       \A id \in Ids :
         /\ getMessages(StAfter, id) = getMessages(St, id)
         /\ getConversation(StAfter, id) = getConversation(St, id)]_vars

\* C38: getConversation(id) on a cache miss returns the persisted
\* conversation and puts the id into the cache when the conversation exists
\* in persistent storage; it returns absent and leaves the cache unchanged
\* when it does not.
C38_MissRepopulatesCache ==
  [][(lastOp'.op = "getConversation" /\ ~lastOp'.hit) =>
       IF lastOp'.id \in DOMAIN dbConversations
       THEN /\ lastOp'.ret = db_getStandardizedConversation(St, lastOp'.id)
            /\ lastOp'.id \in DOMAIN store'
       ELSE /\ lastOp'.ret = NoConversation
            /\ store' = store]_vars

(***************************************************************************)
(* Claims about the input validation of the chat routes.                   *)
(***************************************************************************)
\* C39: a request to POST /v1/chat or GET /v1/chat/stream with a missing or
\* empty message is answered 400 before any effect: no conversation is
\* created, no message is appended, and the provider is not called.  (A
\* request answered after createConversation threw carries a message; the
\* turn does not record it.)
C39_EmptyMessageRejectedFirst ==
  [][\A t \in Turns :
       (/\ turns[t].pc = "idle"
        /\ turns'[t].pc # "idle"
        /\ turns'[t].endpoint \in {"chat", "stream"}
        /\ turns'[t].input = <<>>
        /\ turns'[t].outcome # "storeError")
       => /\ turns'[t].status = 400
          /\ turns'[t].pc = "done"
          /\ turns'[t].events = <<>>
          /\ turns'[t].history = <<>>
          /\ UNCHANGED <<store, dbConversations, dbMessages, usedIds>>]_vars

\* GET /v1/chat/stream has rejected a request after an earlier request left
\* a conversation with messages, which is still there
C39_Witness ==
  /\ \E t, u \in Turns :
       /\ turns[u].endpoint = "chat" /\ turns[u].pc = "done" /\ turns[u].status = 200
       /\ turns[t].endpoint = "stream" /\ turns[t].outcome = "rejected"
       /\ turns[t].status = 400 /\ turns[t].events = <<>>
  /\ \E id \in DOMAIN store : store[id].messages # <<>>
====
